---- MODULE Spec2Model ----
(***************************************************************************)
(* Voice interview recording, audio combination and WAV encoding of the    *)
(* "presence" digital-twin application.                                    *)
(*                                                                         *)
(* Two scripts carry the combine pipeline:                                 *)
(*   - VoiceInterviewSystem (combineAudioRecordings / bufferToWave)        *)
(*   - the voice cloning page script (combineAudioAndFinish / bufferToWave)*)
(* Both are modelled; the variable `script` says which one the page runs.  *)
(***************************************************************************)
EXTENDS Integers, Sequences, FiniteSets, TLC

(***************************************************************************)
(* Part 1.  JavaScript Number arithmetic (IEEE-754 binary64).              *)
(*                                                                         *)
(* The combine routine sizes its buffer as                                 *)
(*     audioContext.sampleRate * sum(buffer.duration)                      *)
(* where every duration is length / sampleRate, all computed in doubles.   *)
(* A positive double is modelled as [e, m]: m is the 53-bit significand,   *)
(* most significant bit first, and the value is 0.m * 2^e.  Zero has the   *)
(* all-zero significand.  Every operation computes the exact result and    *)
(* rounds it to nearest, ties to even, as the hardware does.               *)
(***************************************************************************)

\* Significand width of a JavaScript Number.
MantBits == 53

Zeros(n) == [i \in 1..n |-> 0]

FZero == [e |-> 0, m |-> Zeros(MantBits)]

IsFZero(x) == \A i \in 1..Len(x.m) : x.m[i] = 0

\* Powers of two below 2^31.
Pow2(k) == 2 ^ k

\* Long division of r by den (0 <= r < den): the remainders r0, r1, .., rn
\* left before each of the first n binary digits after the point and after
\* the last one.  acc holds the remainders found so far.
RECURSIVE DivRems(_, _, _)
DivRems(den, n, acc) ==
    IF Len(acc) > n THEN acc
    ELSE LET t == 2 * acc[Len(acc)]
         IN  DivRems(den, n, Append(acc, IF t >= den THEN t - den ELSE t))

\* The first n binary digits of r/den after the point, and the remainder.
DivBits(r, den, n) ==
    LET rems == DivRems(den, n, <<r>>)
    IN  [bits |-> [i \in 1..n |-> IF 2 * rems[i] >= den THEN 1 ELSE 0],
         rem  |-> rems[n + 1]]

\* bits + 1, for a bit string that is not all ones: the last zero becomes
\* one and the ones after it become zeros.
IncBits(bits) ==
    LET j == CHOOSE i \in 1..Len(bits) :
                 bits[i] = 0 /\ \A k \in (i + 1)..Len(bits) : bits[k] = 1
    IN  [i \in 1..Len(bits) |-> IF i < j THEN bits[i] ELSE IF i = j THEN 1 ELSE 0]

AnyOne(bits) == \E i \in 1..Len(bits) : bits[i] = 1

\* Round the exact value 0.bits * 2^e (bits[1] = 1; `sticky` says that
\* non-zero digits follow beyond bits) to a double: nearest, ties to even.
RoundToDouble(bits, e, sticky) ==
    IF Len(bits) <= MantBits
    THEN [e |-> e, m |-> bits \o Zeros(MantBits - Len(bits))]
    ELSE LET keep  == SubSeq(bits, 1, MantBits)
             rnd   == bits[MantBits + 1]
             st    == sticky \/ AnyOne(SubSeq(bits, MantBits + 2, Len(bits)))
             up    == rnd = 1 /\ (st \/ keep[MantBits] = 1)
         IN  IF ~up THEN [e |-> e, m |-> keep]
             ELSE IF \A i \in 1..MantBits : keep[i] = 1
                  THEN [e |-> e + 1, m |-> <<1>> \o Zeros(MantBits - 1)]
                  ELSE [e |-> e, m |-> IncBits(keep)]

\* Scale a/b (a, b > 0) by a power of two into [1/2, 1): a/b = (num/den) * 2^e.
NormDiv(a, b) ==
    IF a >= b
    THEN LET k == CHOOSE k \in 1..30 :
                      Pow2(k) > a \div b /\ Pow2(k - 1) <= a \div b
         IN  [num |-> a, den |-> b * Pow2(k), e |-> k]
    ELSE LET k == CHOOSE k \in 0..30 :
                      Pow2(k) <= (b - 1) \div a /\ Pow2(k + 1) > (b - 1) \div a
         IN  [num |-> a * Pow2(k), den |-> b, e |-> 0 - k]

\* a / b for integers a >= 0, b > 0 (AudioBuffer.duration = length / sampleRate).
FDiv(a, b) ==
    IF a = 0 THEN FZero
    ELSE LET n == NormDiv(a, b)
             d == DivBits(n.num, n.den, MantBits + 1)
         IN  RoundToDouble(d.bits, n.e, d.rem # 0)

\* Carries of a + b on equal-length bit strings (least significant bit
\* last): acc[j] is the carry into the j-th digit from the right, and the
\* last element the carry out.
RECURSIVE AddCarries(_, _, _)
AddCarries(a, b, acc) ==
    IF Len(acc) > Len(a) THEN acc
    ELSE LET p == Len(a) - Len(acc) + 1
         IN  AddCarries(a, b, Append(acc, (a[p] + b[p] + acc[Len(acc)]) \div 2))

AddBits(a, b, carry) ==
    LET n  == Len(a)
        cs == AddCarries(a, b, <<carry>>)
    IN  [bits  |-> [p \in 1..n |-> (a[p] + b[p] + cs[n - p + 1]) % 2],
         carry |-> cs[n + 1]]

\* x + y for non-negative doubles (the reduce accumulator acc + buffer.duration).
FAdd(x, y) ==
    IF IsFZero(x) THEN y
    ELSE IF IsFZero(y) THEN x
    ELSE LET hi == IF x.e >= y.e THEN x ELSE y
             lo == IF x.e >= y.e THEN y ELSE x
             sh == hi.e - lo.e
             s  == AddBits(hi.m \o Zeros(sh), Zeros(sh) \o lo.m, 0)
         IN  IF s.carry = 1
             THEN RoundToDouble(<<1>> \o s.bits, hi.e + 1, FALSE)
             ELSE RoundToDouble(s.bits, hi.e, FALSE)

\* Number of binary digits of n (0 <= n < 2^30).
BitLen(n) == CHOOSE k \in 0..30 : Pow2(k) > n /\ (k = 0 \/ Pow2(k - 1) <= n)

\* Binary digits of n, most significant first; <<>> for 0.
ToBits(n) == [i \in 1..BitLen(n) |-> (n \div Pow2(BitLen(n) - i)) % 2]

\* The integer a bit string of at most 30 digits denotes.
RECURSIVE FromBits(_)
FromBits(bits) ==
    LET n == Len(bits)
    IN  IF n = 0 THEN 0
        ELSE IF n = 1 THEN bits[1]
        ELSE LET h == n \div 2
             IN  FromBits(SubSeq(bits, 1, h)) * Pow2(n - h) + FromBits(SubSeq(bits, h + 1, n))

\* Carries of bits * n (least significant bit last): acc[j] is the carry
\* into the j-th digit from the right, and the last element the carry out.
RECURSIVE MulCarries(_, _, _)
MulCarries(bits, n, acc) ==
    IF Len(acc) > Len(bits) THEN acc
    ELSE LET p == Len(bits) - Len(acc) + 1
         IN  MulCarries(bits, n, Append(acc, (bits[p] * n + acc[Len(acc)]) \div 2))

MulBits(bits, n, carry) ==
    LET k  == Len(bits)
        cs == MulCarries(bits, n, <<carry>>)
    IN  [bits  |-> [p \in 1..k |-> (bits[p] * n + cs[k - p + 1]) % 2],
         carry |-> cs[k + 1]]

\* Drop the leading zeros of a bit string that holds a one.
StripZeros(bits, e) ==
    LET j == CHOOSE i \in 1..Len(bits) :
                 bits[i] = 1 /\ \A k \in 1..(i - 1) : bits[k] = 0
    IN  [bits |-> SubSeq(bits, j, Len(bits)), e |-> e - (j - 1)]

\* n * x for an integer n > 0 (audioContext.sampleRate * totalDuration).
FMulInt(n, x) ==
    IF IsFZero(x) THEN FZero
    ELSE LET p  == MulBits(x.m, n, 0)
             cb == ToBits(p.carry)
             nz == StripZeros(cb \o p.bits, x.e + Len(cb))
         IN  RoundToDouble(nz.bits, nz.e, FALSE)

\* Conversion of a non-negative double to the `unsigned long` length
\* argument of createBuffer: the fraction is dropped.  (The reduction
\* modulo 2^32 never applies to the lengths modelled here.)
ToUnsignedLong(x) ==
    IF IsFZero(x) \/ x.e <= 0 THEN 0
    ELSE IF x.e <= MantBits THEN FromBits(SubSeq(x.m, 1, x.e))
    ELSE FromBits(x.m \o Zeros(x.e - MantBits))

\* audioBuffers.reduce((acc, buffer) => acc + buffer.duration, 0)
RECURSIVE TotalDuration(_, _)
TotalDuration(lengths, rate) ==
    IF lengths = <<>> THEN FZero
    ELSE FAdd(TotalDuration(SubSeq(lengths, 1, Len(lengths) - 1), rate),
              FDiv(lengths[Len(lengths)], rate))

\* Length of the buffer createBuffer allocates for these segment lengths.
CombinedLength(lengths, rate) ==
    ToUnsignedLong(FMulInt(rate, TotalDuration(lengths, rate)))

(***************************************************************************)
(* Part 2.  Audio buffers and the WAV encoder (bufferToWave).              *)
(*                                                                         *)
(* A sample is a Float32 value; the model writes it as an integer count of *)
(* 1/SampleDen, so that 1.0 is SampleDen and 1.5 is 3 * SampleDen / 2.     *)
(* SampleDen is a power of two, so every modelled sample is an exact       *)
(* Float32 and the products below are exact in double arithmetic.          *)
(***************************************************************************)

SampleDen == 4

\* A JavaScript number read from a Float32Array: a sample value v, or NaN
\* (channels[i][offset] past the end reads `undefined`, which Math.min
\* turns into NaN).
Num(v) == [nan |-> FALSE, v |-> v]
NaN == [nan |-> TRUE, v |-> 0]

Min(a, b) == IF a <= b THEN a ELSE b
Max(a, b) == IF a >= b THEN a ELSE b

\* Variant without the clamp: the sample is scaled as it is.
ClampSampleOff(x) == x

\* Math.max(-1, Math.min(1, x))
ClampSample(x) ==
    IF x.nan THEN NaN
    ELSE Num(Max(0 - SampleDen, Min(SampleDen, x.v)))

\* n / d with the fraction dropped (d > 0): the effect of `| 0` on a value
\* within the int32 range.
TruncDiv(n, d) == IF n >= 0 THEN n \div d ELSE 0 - ((0 - n) \div d)

\* (0.5 + sample < 0 ? sample * 32768 : sample * 32767) | 0
\* `0.5 + sample < 0` parses as (0.5 + sample) < 0; NaN | 0 is 0.
ScaleSample(c) ==
    IF c.nan THEN 0
    ELSE IF SampleDen + 2 * c.v < 0
         THEN TruncDiv(c.v * 32768, SampleDen)
         ELSE TruncDiv(c.v * 32767, SampleDen)

\* The 16-bit value bufferToWave stores for the sample value x.
EncodeSample(x) == ScaleSample(ClampSample(Num(x)))

\* Little-endian bytes of an unsigned value.
LEBytes(data, n) == [k \in 1..n |-> (data \div (256 ^ (k - 1))) % 256]

\* view.setInt16(pos, sample, true): two's complement, low byte first.
Int16Bytes(v) == LEBytes((v + 65536) % 65536, 2)

\* The signed 16-bit value stored at byte offset p of a byte string.
ReadInt16(bytes, p) ==
    LET u == bytes[p + 1] + 256 * bytes[p + 2]
    IN  IF u >= 32768 THEN u - 65536 ELSE u

ReadUint16(bytes, p) == bytes[p + 1] + 256 * bytes[p + 2]

\* The unsigned 32-bit value at byte offset p (below 2^31 in this model).
ReadUint32(bytes, p) ==
    bytes[p + 1] + 256 * bytes[p + 2] + 65536 * bytes[p + 3] + 16777216 * bytes[p + 4]

\* An AudioBuffer: sampleRate, and one sample sequence per channel.
AudioBufferOf(rate, chans) == [sampleRate |-> rate, channels |-> chans]
NumberOfChannels(abuffer) == Len(abuffer.channels)
BufferLength(abuffer) == Len(abuffer.channels[1])
\* AudioBuffer.duration
Duration(abuffer) == FDiv(BufferLength(abuffer), abuffer.sampleRate)

\* The DataView over `new ArrayBuffer(length)` and the write cursor pos.
\* Every write of bufferToWave is made at pos and moves pos past it, so
\* the buffer is the bytes written so far (offsets 0 .. pos - 1) followed
\* by the zeros it was created with.
NewView(length) == [bytes |-> <<>>, pos |-> 0, length |-> length]

WriteBytes(view, bs) ==
    [bytes |-> view.bytes \o bs, pos |-> view.pos + Len(bs), length |-> view.length]

\* Variant that writes a 16-bit field as four bytes.
setUint16Wide(view, data) == WriteBytes(view, LEBytes(data, 4))

\* function setUint16(data) { view.setUint16(pos, data, true); pos += 2; }
setUint16(view, data) == WriteBytes(view, LEBytes(data, 2))

\* Variant that writes the four bytes high byte first (littleEndian omitted).
setUint32BigEndian(view, data) ==
    WriteBytes(view, [k \in 1..4 |-> (data \div (256 ^ (4 - k))) % 256])

\* function setUint32(data) { view.setUint32(pos, data, true); pos += 4; }
setUint32(view, data) == WriteBytes(view, LEBytes(data, 4))

\* 0x46464952, 0x45564157, 0x20746d66, 0x61746164
TagRIFF == 1179011410
TagWAVE == 1163280727
TagFmt  == 544501094
TagData == 1635017060

\* Variant that leaves the 44 header bytes out of the file length.
WaveLengthNoHeader(len, numOfChan) == len * numOfChan * 2

\* const length = len * numOfChan * 2 + 44;
WaveLength(len, numOfChan) == len * numOfChan * 2 + 44

\* The header writes of bufferToWave, in program order.
WriteHeader(abuffer, length) ==
    LET numOfChan == NumberOfChannels(abuffer)
        v0  == NewView(length)
        v1  == setUint32(v0, TagRIFF)
        v2  == setUint32(v1, length - 8)
        v3  == setUint32(v2, TagWAVE)
        v4  == setUint32(v3, TagFmt)
        v5  == setUint32(v4, 16)
        v6  == setUint16(v5, 1)
        v7  == setUint16(v6, numOfChan)
        v8  == setUint32(v7, abuffer.sampleRate)
        v9  == setUint32(v8, abuffer.sampleRate * 2 * numOfChan)
        v10 == setUint16(v9, numOfChan * 2)
        v11 == setUint16(v10, 16)
        v12 == setUint32(v11, TagData)
    IN  setUint32(v12, length - v12.pos - 4)

\* channels[i][offset]
SampleAt(abuffer, i, offset) ==
    IF offset < Len(abuffer.channels[i]) THEN Num(abuffer.channels[i][offset + 1]) ELSE NaN

\* The inner for loop: one interleaved frame, channel by channel.
RECURSIVE FrameBytes(_, _, _)
FrameBytes(abuffer, offset, i) ==
    IF i > NumberOfChannels(abuffer) THEN <<>>
    ELSE Int16Bytes(ScaleSample(ClampSample(SampleAt(abuffer, i, offset))))
             \o FrameBytes(abuffer, offset, i + 1)

\* State of the write loop: the cursor pos, the frame index offset, whether
\* the loop was left by `break`, and whether a DataView write fell outside
\* the ArrayBuffer (RangeError).
LoopGuard(ls, length) == ~ls.brk /\ ~ls.err /\ ls.pos < length

\* One iteration of `while (pos < length)`.  breaks says whether the body
\* ends with `if (offset >= channels[0].length) break;` (VoiceInterviewSystem
\* has the line, the cloning page script does not).
LoopBody(abuffer, length, breaks, ls) ==
    LET bs == FrameBytes(abuffer, ls.offset, 1)
    IN  IF ls.pos + Len(bs) > length
        THEN [ls |-> [ls EXCEPT !.err = TRUE], out |-> <<>>]
        ELSE [ls  |-> [pos    |-> ls.pos + Len(bs),
                       offset |-> ls.offset + 1,
                       brk    |-> breaks /\ ls.offset + 1 >= Len(abuffer.channels[1]),
                       err    |-> FALSE],
              out |-> bs]

\* The write loop is followed for at most 8^MaxLoopDepth iterations.
MaxLoopDepth == 6

\* Up to 8^k iterations of the write loop from ls: the state reached and
\* the bytes written, in order (each write is at the cursor, so the bytes
\* are contiguous from the starting pos).  Eight consecutive runs of up to
\* 8^(k-1) iterations each, every one starting where the previous stopped.
RECURSIVE RunLoop(_, _, _, _, _)
RunLoop(abuffer, length, breaks, ls, k) ==
    IF ~LoopGuard(ls, length) THEN [ls |-> ls, out |-> <<>>]
    ELSE IF k = 0 THEN LoopBody(abuffer, length, breaks, ls)
    ELSE LET r1 == RunLoop(abuffer, length, breaks, ls, k - 1)
             r2 == RunLoop(abuffer, length, breaks, r1.ls, k - 1)
             r3 == RunLoop(abuffer, length, breaks, r2.ls, k - 1)
             r4 == RunLoop(abuffer, length, breaks, r3.ls, k - 1)
             r5 == RunLoop(abuffer, length, breaks, r4.ls, k - 1)
             r6 == RunLoop(abuffer, length, breaks, r5.ls, k - 1)
             r7 == RunLoop(abuffer, length, breaks, r6.ls, k - 1)
             r8 == RunLoop(abuffer, length, breaks, r7.ls, k - 1)
         IN  [out |-> r1.out \o r2.out \o r3.out \o r4.out
                          \o r5.out \o r6.out \o r7.out \o r8.out,
              ls  |-> r8.ls]

\* The ArrayBuffer once the loop has written `out` after the header: the
\* part never written keeps its zeros.
ViewBytes(hdr, out) ==
    hdr.bytes \o out \o Zeros(hdr.length - hdr.pos - Len(out))

WaveResult(hdr, run) ==
    [thrown |-> run.ls.err,
     pos    |-> run.ls.pos,
     offset |-> run.ls.offset,
     bytes  |-> ViewBytes(hdr, run.out)]

WaveFrom(abuffer, length, breaks, hdr) ==
    WaveResult(hdr, RunLoop(abuffer, length, breaks,
                            [pos |-> hdr.pos, offset |-> 0, brk |-> FALSE, err |-> FALSE],
                            MaxLoopDepth))

\* bufferToWave(abuffer, len): the bytes of the Blob it returns, the final
\* cursor and frame index, or thrown = TRUE when a write raised.
WaveOf(abuffer, len, breaks) ==
    WaveFrom(abuffer, WaveLength(len, NumberOfChannels(abuffer)), breaks,
             WriteHeader(abuffer, WaveLength(len, NumberOfChannels(abuffer))))

\* VoiceInterviewSystem.bufferToWave
bufferToWave(abuffer, len) == WaveOf(abuffer, len, TRUE)

\* bufferToWave of the cloning page script
appBufferToWave(abuffer, len) == WaveOf(abuffer, len, FALSE)

(***************************************************************************)
(* Part 3.  Recorded blobs and the browser's decoder.                      *)
(*                                                                         *)
(* A recorded Blob is the sequence of data chunks the MediaRecorder        *)
(* delivered.  decodeAudioData rejects an empty or corrupt blob and        *)
(* otherwise yields a mono AudioBuffer at the AudioContext's sample rate.  *)
(***************************************************************************)

\* Chunk kinds: two short takes, a one-second take, and corrupt data.
ChunkA   == "a"
ChunkB   == "b"
ChunkSec == "sec"
ChunkBad == "bad"

\* `null`, and the Blob bufferToWave returns.
Null == [type |-> "null"]
IsNull(x) == x.type = "null"
WavBlob(bytes) == [type |-> "audio/wav", bytes |-> bytes]

\* Decoded samples of a chunk, in units of 1/SampleDen.  The short takes
\* cover the range -1.5 .. 1.5; the one-second take has sampleRate samples.
ChunkPcm(c, rate) ==
    IF c = ChunkA THEN << 0 - 6 >>
    ELSE IF c = ChunkB THEN << 0 - 4, 0 - 3, 0 - 2, 0 - 1, 0, 1, 2, 3, 4, 6, 5, 0 - 5 >>
    ELSE [i \in 1..rate |-> (i % 9) - 4] \o <<>>

RECURSIVE BlobPcm(_, _)
BlobPcm(blob, rate) ==
    IF blob = <<>> THEN <<>>
    ELSE ChunkPcm(blob[1], rate) \o BlobPcm(Tail(blob), rate)

\* Whether audioContext.decodeAudioData(arrayBuffer) resolves for the blob.
Decodable(blob) == blob # <<>> /\ \A k \in 1..Len(blob) : blob[k] # ChunkBad

\* The AudioBuffer decodeAudioData resolves with.
Decode(blob, rate) == AudioBufferOf(rate, << BlobPcm(blob, rate) >>)

(***************************************************************************)
(* Part 4.  The combine routine (combineAudioRecordings of                 *)
(* VoiceInterviewSystem, combineAudioAndFinish of the cloning page).       *)
(***************************************************************************)

RECURSIVE BufferLengths(_)
BufferLengths(audioBuffers) ==
    IF audioBuffers = <<>> THEN <<>>
    ELSE <<BufferLength(audioBuffers[1])>> \o BufferLengths(Tail(audioBuffers))

RECURSIVE SumSeq(_)
SumSeq(ns) == IF ns = <<>> THEN 0 ELSE ns[1] + SumSeq(Tail(ns))

\* audioContext.createBuffer(1, audioContext.sampleRate * totalDuration,
\*                           audioContext.sampleRate): the allocated length.
CreateBufferLength(audioBuffers, rate) ==
    CombinedLength(BufferLengths(audioBuffers), rate)

\* offset += buffer.length
AdvanceOffset(offset, buffer) == offset + BufferLength(buffer)

\* Float32Array.prototype.set(source, offset) on a target it fits in.
SetAt(target, source, offset) ==
    SubSeq(target, 1, offset) \o source
        \o SubSeq(target, offset + Len(source) + 1, Len(target))

\* The copy loop `for (const buffer of audioBuffers)`: the channel data
\* after copying the buffers from index k on, or thrown when a set() does
\* not fit (RangeError).
RECURSIVE CopyBuffers(_, _, _, _)
CopyBuffers(data, audioBuffers, k, offset) ==
    IF k > Len(audioBuffers) THEN [thrown |-> FALSE, data |-> data]
    ELSE LET channelData == audioBuffers[k].channels[1]
         IN  IF offset + Len(channelData) > Len(data)
             THEN [thrown |-> TRUE, data |-> data]
             ELSE CopyBuffers(SetAt(data, channelData, offset), audioBuffers, k + 1,
                              AdvanceOffset(offset, audioBuffers[k]))

\* Lines "Calculate total duration" to "Copy each buffer": the combined
\* buffer, or thrown (createBuffer rejects a zero length, set() a source
\* that does not fit).
Concatenate(audioBuffers, rate) ==
    LET n == CreateBufferLength(audioBuffers, rate)
    IN  IF n = 0 THEN [thrown |-> TRUE, length |-> 0, data |-> <<>>]
        ELSE LET c == CopyBuffers(Zeros(n) \o <<>>, audioBuffers, 1, 0)
             IN  [thrown |-> c.thrown, length |-> n, data |-> c.data]

\* Variant of Render that loses the last frame of the buffer.
RenderTruncated(data, rate) ==
    AudioBufferOf(rate, << SubSeq(data, 1, Len(data) - 1) >>)

\* offlineContext.startRendering() of a buffer source playing
\* combinedBuffer from time 0 into as many frames as the buffer has.
Render(data, rate) == AudioBufferOf(rate, << data >>)

(***************************************************************************)
(* Part 5.  State.                                                         *)
(***************************************************************************)

VARIABLES
    script,               \* which script drives the page: "interview" or "app"
    sampleRate,           \* audioContext.sampleRate of the browser
    mic,                  \* the chunk kinds the microphone can deliver
    probe,                \* a direct run of the combine pipeline and its result
    recorder,             \* the AudioRecorder and the MediaRecorders it created
    recordBtnDisabled,    \* recordButton.disabled
    navDisabled,          \* nextQuestionBtn.disabled and the finish button's
    containerVisible,     \* responseContainer is displayed
    questions,            \* questions.length
    currentQuestionIndex,
    responses,            \* the question indices that have a saved response
    isInterviewComplete,
    audioResponses,       \* VoiceInterviewSystem.audioResponses
    combinedAudioBlob,    \* VoiceInterviewSystem.combinedAudioBlob
    recordedResponses,    \* recordedResponses of the cloning page
    audioBlob,            \* audioBlob of the cloning page
    createVoiceDisabled,  \* createVoiceButton.disabled
    calls,                \* the invocations of the combine routine, in call order
    dispatched,           \* audioBlob details of the interviewComplete events
    lastAlert,            \* text of the latest alert()
    answeredOn,           \* for each recorded response, the question shown when it was saved
    profileName,          \* profileName.value
    sampleVoice,          \* the Use Sample Voice button: "idle", "loading" or "loaded"
    cloneRequests,        \* the POSTs to /clone-voice, each "pending", "ok" or "failed"
    lastVoiceId,          \* window.lastVoiceId
    docArrays,            \* the arrays window.pendingDocuments has held; the last is the current one
    docRequest,           \* the request of the document upload form that is in flight
    docCount,             \* documents submitted through the upload form
    uploads,              \* the invocations of uploadPendingDocuments
    sentDocs,             \* requests sent for documents, in order
    removedDocs,          \* documents the user removed from the pending list
    docButtons,           \* Remove buttons in the documents list (data-index 0 .. docButtons - 1)
    loads,                \* loadDocuments fetches in flight
    chat                  \* a run of the event-stream reader of the chat

vars == << script, sampleRate, mic, probe, recorder, recordBtnDisabled, navDisabled,
           containerVisible, questions, currentQuestionIndex, responses,
           isInterviewComplete, audioResponses, combinedAudioBlob,
           recordedResponses, audioBlob, createVoiceDisabled, calls,
           dispatched, lastAlert, answeredOn, profileName, sampleVoice,
           cloneRequests, lastVoiceId, docArrays, docRequest, docCount, uploads,
           sentDocs, removedDocs, docButtons, loads, chat >>

\* Bounds of the model.
MaxResponses == 2      \* recordings started in one session
MaxCalls     == 1      \* invocations of the combine routine
MaxQuestions == 2      \* questions the server returns to startInterview

\* The five questions of the cloning page script.
AppQuestions == 5

SampleRates == {44100, 48000}

Undefined == [type |-> "undefined"]

\* How the promise of an async call stands: not settled yet, or resolved
\* with the value the function returned.
Pending == [kind |-> "pending", value |-> Undefined]
Returned(v) == [kind |-> "returned", value |-> v]

AlertCombine    == "Error combining audio recordings. Please try again."
AlertNoRecord   == "No recordings found. Please record your voice first."
AlertNext       == "Please record an answer before continuing."
AlertFinish     == "Please record an answer before finishing."
AlertMicrophone == "Could not access microphone. Please ensure you have granted permission."
AlertSampleOk   == "Sample voice loaded successfully! You can now create an AI agent without recording."
AlertSampleErr  == "Error loading sample voice. Please try recording instead."
AlertRecordFirst == "Please record your voice first."
AlertEnterName  == "Please enter your name"
AlertCloneError == "Error: Failed to clone voice"
LogNoRecord     == "No recordings to combine"
\* The name the page fills in when the name field was left empty.
DefaultName == "Voice User"

LogCombine      == "Error combining audio:"

\* The list the running script records into and combines.
Segments == IF script = "interview" THEN audioResponses ELSE recordedResponses

\* No request of the document upload form in flight.
NoRequest == [kind |-> "none", doc |-> 0]

\* No run of the chat stream reader.
NoChat == [events |-> <<>>, stream |-> <<>>, pos |-> 0, carry |-> <<>>,
           buffer |-> <<>>, fullResponse |-> <<>>, handled |-> <<>>,
           cuts |-> {}, finished |-> TRUE]

InitCommon ==
    /\ script \in {"interview", "app"}
    /\ recorder = [isRecording |-> FALSE, audioChunks |-> <<>>, stream |-> 0,
                   audioContext |-> 0, recorder |-> 0, pending |-> 0, media |-> <<>>,
                   resolved |-> [from |-> 0, current |-> 0]]
    /\ recordBtnDisabled = FALSE
       \* index.html ships both navigation buttons disabled; the markup of
       \* the cloning page is not part of the repository.
    /\ navDisabled \in (IF script = "interview" THEN {TRUE} ELSE BOOLEAN)
    /\ containerVisible = (script = "app")
    /\ questions = (IF script = "app" THEN AppQuestions ELSE 0)
    /\ currentQuestionIndex = 0
    /\ responses = {}
    /\ isInterviewComplete = FALSE
    /\ audioResponses = <<>>
    /\ combinedAudioBlob = Null
    /\ recordedResponses = <<>>
    /\ audioBlob = Null
    /\ createVoiceDisabled = TRUE
    /\ calls = <<>>
    /\ dispatched = <<>>
    /\ lastAlert = ""
    /\ answeredOn = <<>>
    /\ profileName = ""
    /\ sampleVoice = "idle"
    /\ cloneRequests = <<>>
    /\ lastVoiceId = Undefined
    /\ docArrays = << <<>> >>
    /\ docRequest = NoRequest
    /\ docCount = 0
    /\ uploads = <<>>
    /\ sentDocs = <<>>
    /\ removedDocs = {}
    /\ docButtons = 0
    /\ loads = 0

\* No direct run of the pipeline.
NoProbe == [input |-> <<>>, done |-> TRUE, outcome |-> Pending, failure |-> "",
            failedIndex |-> 0 - 1, size |-> 0, header |-> <<>>]

Init ==
    /\ InitCommon
    /\ chat = NoChat
    /\ sampleRate \in SampleRates
    /\ mic = {ChunkA, ChunkB, ChunkBad}
    /\ probe = NoProbe

(***************************************************************************)
(* Part 6.  Recording (AudioRecorder, toggleRecording).                    *)
(*                                                                         *)
(* recorder.media lists the MediaRecorder objects start() has created,     *)
(* each with the microphone stream it records: state is "recording",       *)
(* "stopping" (stop() was called with onstop set, its events are queued)   *)
(* or "inactive", and live says whether the stream's tracks still run.     *)
(* The fields stream, recorder and audioContext of the AudioRecorder hold  *)
(* the position in media of the object they refer to, 0 for null.          *)
(* pending counts the start() calls waiting in getUserMedia.               *)
(***************************************************************************)

UIUnchanged == UNCHANGED << script, sampleRate, mic, probe >>

\* The document upload form, the pending documents and their upload.
DocsUnchanged == UNCHANGED << docArrays, docRequest, docCount, uploads, sentDocs,
                              removedDocs, docButtons, loads >>

\* The profile form, the sample voice button and the clone request.
FormUnchanged == UNCHANGED << profileName, sampleVoice, cloneRequests, lastVoiceId >>

\* The MediaRecorder objects that have not stopped, and the microphone
\* streams whose tracks have not been stopped.
ActiveRecorders == { i \in 1..Len(recorder.media) : recorder.media[i].state # "inactive" }
LiveStreams == { i \in 1..Len(recorder.media) : recorder.media[i].live }

\* Click on Record Answer while recorder.isRecording is false: the handler
\* calls recorder.start(), which passes its isRecording test and waits in
\* getUserMedia.  The button stays enabled meanwhile.
ToggleRecordingStart ==
    /\ containerVisible /\ ~recordBtnDisabled
    /\ ~recorder.isRecording
    /\ Len(recorder.media) + recorder.pending < MaxResponses
    /\ recorder' = [recorder EXCEPT !.pending = @ + 1]
    /\ UIUnchanged
    /\ DocsUnchanged
    /\ UNCHANGED chat
    /\ FormUnchanged
    /\ UNCHANGED << recordBtnDisabled, navDisabled, containerVisible, questions,
                    currentQuestionIndex, responses, isInterviewComplete,
                    audioResponses, answeredOn, combinedAudioBlob, recordedResponses,
                    audioBlob, createVoiceDisabled, calls, dispatched, lastAlert >>

\* Variant of StartGranted whose handler leaves the navigation buttons as
\* they are.
StartGrantedNavKept ==
    /\ recorder.pending > 0
    /\ LET n == Len(recorder.media) + 1
       IN  recorder' = [recorder EXCEPT !.pending = @ - 1,
                                        !.media = Append(@, [state |-> "recording", live |-> TRUE]),
                                        !.stream = n,
                                        !.audioContext = n,
                                        !.recorder = n,
                                        !.audioChunks = <<>>,
                                        !.isRecording = TRUE]
    /\ UIUnchanged
    /\ DocsUnchanged
    /\ UNCHANGED chat
    /\ FormUnchanged
    /\ UNCHANGED << recordBtnDisabled, navDisabled, containerVisible, questions,
                    currentQuestionIndex, responses, isInterviewComplete,
                    audioResponses, answeredOn, combinedAudioBlob, recordedResponses,
                    audioBlob, createVoiceDisabled, calls, dispatched, lastAlert >>

\* getUserMedia resolves for one waiting start(): it stores the stream, a
\* new AudioContext and a new MediaRecorder over whatever the fields held,
\* empties audioChunks, starts the MediaRecorder, sets isRecording and
\* returns true; the handler disables the navigation buttons.
StartGranted ==
    /\ recorder.pending > 0
    /\ LET n == Len(recorder.media) + 1
       IN  recorder' = [recorder EXCEPT !.pending = @ - 1,
                                        !.media = Append(@, [state |-> "recording", live |-> TRUE]),
                                        !.stream = n,
                                        !.audioContext = n,
                                        !.recorder = n,
                                        !.audioChunks = <<>>,
                                        !.isRecording = TRUE]
    /\ navDisabled' = TRUE
    /\ UIUnchanged
    /\ DocsUnchanged
    /\ UNCHANGED chat
    /\ FormUnchanged
    /\ UNCHANGED << recordBtnDisabled, containerVisible, questions,
                    currentQuestionIndex, responses, isInterviewComplete,
                    audioResponses, answeredOn, combinedAudioBlob, recordedResponses,
                    audioBlob, createVoiceDisabled, calls, dispatched, lastAlert >>

\* getUserMedia rejects for one waiting start(): it returns false and the
\* handler alerts.
StartDenied ==
    /\ recorder.pending > 0
    /\ recorder' = [recorder EXCEPT !.pending = @ - 1]
    /\ lastAlert' = AlertMicrophone
    /\ UIUnchanged
    /\ DocsUnchanged
    /\ UNCHANGED chat
    /\ FormUnchanged
    /\ UNCHANGED << recordBtnDisabled, navDisabled, containerVisible, questions,
                    currentQuestionIndex, responses, isInterviewComplete,
                    audioResponses, answeredOn, combinedAudioBlob, recordedResponses,
                    audioBlob, createVoiceDisabled, calls, dispatched >>

\* Click on Stop Recording (recorder.isRecording is true): the button is
\* disabled and recorder.stop() sets onstop on this.recorder and stops it.
ToggleRecordingStop ==
    /\ containerVisible /\ ~recordBtnDisabled
    /\ recorder.isRecording
    /\ recordBtnDisabled' = TRUE
    /\ recorder' = [recorder EXCEPT !.media[recorder.recorder].state = "stopping"]
    /\ UIUnchanged
    /\ DocsUnchanged
    /\ UNCHANGED chat
    /\ FormUnchanged
    /\ UNCHANGED << navDisabled, containerVisible, questions,
                    currentQuestionIndex, responses, isInterviewComplete,
                    audioResponses, answeredOn, combinedAudioBlob, recordedResponses,
                    audioBlob, createVoiceDisabled, calls, dispatched, lastAlert >>

\* The AudioRecorder once onstop has run: the tracks of this.stream are
\* stopped (a MediaRecorder whose stream ends goes inactive), and stream,
\* recorder and audioContext are set to null.  resolved remembers which
\* MediaRecorder fired and which one this.recorder was at that moment.
AfterOnStop(i, chunks) ==
    [recorder EXCEPT !.isRecording = FALSE,
                     !.audioChunks = chunks,
                     !.media = [k \in 1..Len(recorder.media) |->
                                   IF k = recorder.stream
                                   THEN [state |-> "inactive", live |-> FALSE]
                                   ELSE IF k = i
                                        THEN [recorder.media[k] EXCEPT !.state = "inactive"]
                                        ELSE recorder.media[k]],
                     !.stream = 0,
                     !.audioContext = 0,
                     !.recorder = 0,
                     !.resolved = [from |-> i, current |-> recorder.recorder]]

\* A stopped MediaRecorder delivers its data (kept when its size is
\* positive) and fires onstop: the blob is built from audioChunks, the
\* recorder is released, and the handler appends the blob and enables the
\* buttons.
RecorderOnStop(data) ==
    /\ \E i \in 1..Len(recorder.media) :
          /\ recorder.media[i].state = "stopping"
          /\ LET chunks == IF data = "empty" THEN recorder.audioChunks
                           ELSE Append(recorder.audioChunks, data)
             IN  /\ recorder' = AfterOnStop(i, chunks)
                 /\ IF script = "interview"
                    THEN audioResponses' = Append(audioResponses, chunks)
                         /\ UNCHANGED recordedResponses
                    ELSE recordedResponses' = Append(recordedResponses, chunks)
                         /\ UNCHANGED audioResponses
    /\ answeredOn' = Append(answeredOn, currentQuestionIndex)
    /\ recordBtnDisabled' = FALSE
    /\ navDisabled' = FALSE
    /\ UIUnchanged
    /\ DocsUnchanged
    /\ UNCHANGED chat
    /\ FormUnchanged
    /\ UNCHANGED << containerVisible, questions, currentQuestionIndex, responses,
                    isInterviewComplete, combinedAudioBlob, audioBlob,
                    createVoiceDisabled, calls, dispatched, lastAlert >>

(***************************************************************************)
(* Part 7.  The combine routine as a state machine.                        *)
(*                                                                         *)
(* An invocation is a record: pc is where the async function waits         *)
(* ("decode": the two awaits of the decode loop, "render": startRendering, *)
(* "done"), audioBuffers and combined are its locals, outcome is how its   *)
(* promise settled, alert and console are what it reported, blob is the    *)
(* Blob it produced.  failure, failedIndex, allocated, wavePos and         *)
(* waveOffset record what happened inside, and input the list as it was at *)
(* the call, for the properties below.  fin is the position of the         *)
(* finishInterview invocation that awaits it.                              *)
(***************************************************************************)

\* The invocation right after the call: the empty list returns at once
\* (console.error in combineAudioRecordings, alert in combineAudioAndFinish),
\* otherwise the decode loop waits for its first blob.
NewCall(list) ==
    [pc           |-> IF Len(list) = 0 THEN "done" ELSE "decode",
     input        |-> list,
     audioBuffers |-> <<>>,
     allocated    |-> 0 - 1,
     combined     |-> <<>>,
     blob         |-> Null,
     outcome      |-> IF Len(list) = 0 THEN Returned(Undefined) ELSE Pending,
     alert        |-> IF Len(list) = 0 /\ script = "app" THEN AlertNoRecord ELSE "",
     console      |-> IF Len(list) = 0 /\ script = "interview" THEN LogNoRecord ELSE "",
     failure      |-> IF Len(list) = 0 THEN "empty" ELSE "none",
     failedIndex  |-> 0 - 1,
     wavePos      |-> 0,
     waveOffset   |-> 0,
     fin          |-> IF script = "interview"
                      THEN (IF Len(list) = 0 THEN "saving" ELSE "await")
                      ELSE "none"]

\* The catch block: console.error, alert, and the function returns nothing.
Caught(call, kind, index) ==
    [call EXCEPT !.pc = "done",
                 !.combined = <<>>,
                 !.outcome = Returned(Undefined),
                 !.alert = AlertCombine,
                 !.console = LogCombine,
                 !.failure = kind,
                 !.failedIndex = index,
                 !.fin = IF script = "interview" THEN "saving" ELSE "none"]

\* Variant of AfterPush that does not wait for the remaining blobs: the
\* buffers decoded so far go to the concatenation at once.
AfterPushEager(call, bufs, cc) ==
    [call EXCEPT !.audioBuffers = bufs, !.allocated = cc.length,
                 !.combined = cc.data, !.pc = "render"]

\* The decode loop after audioBuffers.push(audioBuffer): the for-of loop
\* reads the live array, so it goes on while blobs remain and otherwise
\* falls through to the concatenation and startRendering.
AfterPush(call, bufs, cc) ==
    IF Len(bufs) < Len(Segments)
    THEN [call EXCEPT !.audioBuffers = bufs]
    ELSE IF cc.thrown
         THEN Caught([call EXCEPT !.audioBuffers = bufs, !.allocated = cc.length],
                     "concat", 0 - 1)
         ELSE [call EXCEPT !.audioBuffers = bufs, !.allocated = cc.length,
                           !.combined = cc.data, !.pc = "render"]

\* What finishInterview does once `await this.combineAudioRecordings()`
\* has returned, up to its own await of fetch: it hides the containers and
\* marks the interview complete, whatever the combine did.
FinishResumes ==
    /\ containerVisible' = FALSE
    /\ isInterviewComplete' = TRUE

\* await blob.arrayBuffer(); await audioContext.decodeAudioData(arrayBuffer)
\* resolves for the next blob.
DecodeResolved(c) ==
    /\ calls[c].pc = "decode"
    /\ LET call == calls[c]
           blob == Segments[Len(call.audioBuffers) + 1]
       IN  /\ Decodable(blob)
           /\ \E bufs \in {Append(call.audioBuffers, Decode(blob, sampleRate))} :
              \E cc \in {IF Len(bufs) < Len(Segments)
                         THEN [thrown |-> FALSE, length |-> 0, data |-> <<>>]
                         ELSE Concatenate(bufs, sampleRate)} :
              \E next \in {AfterPush(call, bufs, cc)} :
                 /\ calls' = [calls EXCEPT ![c] = next]
                 /\ IF next.pc = "done" /\ script = "interview"
                    THEN FinishResumes
                    ELSE UNCHANGED << containerVisible, isInterviewComplete >>
    /\ lastAlert' = IF calls'[c].pc = "done" THEN AlertCombine ELSE lastAlert
    /\ UIUnchanged
    /\ DocsUnchanged
    /\ UNCHANGED chat
    /\ FormUnchanged
    /\ UNCHANGED answeredOn
    /\ UNCHANGED << recorder, recordBtnDisabled, navDisabled, questions,
                    currentQuestionIndex, responses, audioResponses,
                    combinedAudioBlob, recordedResponses, audioBlob,
                    createVoiceDisabled, dispatched >>

\* decodeAudioData rejects the next blob: the catch block runs.
DecodeRejected(c) ==
    /\ calls[c].pc = "decode"
    /\ LET call == calls[c]
           blob == Segments[Len(call.audioBuffers) + 1]
       IN  /\ ~Decodable(blob)
           /\ calls' = [calls EXCEPT ![c] = Caught(call, "decode", Len(call.audioBuffers))]
    /\ lastAlert' = AlertCombine
    /\ IF script = "interview"
       THEN FinishResumes
       ELSE UNCHANGED << containerVisible, isInterviewComplete >>
    /\ UIUnchanged
    /\ DocsUnchanged
    /\ UNCHANGED chat
    /\ FormUnchanged
    /\ UNCHANGED answeredOn
    /\ UNCHANGED << recorder, recordBtnDisabled, navDisabled, questions,
                    currentQuestionIndex, responses, audioResponses,
                    combinedAudioBlob, recordedResponses, audioBlob,
                    createVoiceDisabled, dispatched >>

\* startRendering resolves in combineAudioRecordings: bufferToWave encodes
\* the rendered buffer, the blob becomes this.combinedAudioBlob and is
\* returned; finishInterview resumes.
RenderResolvedInterview(c) ==
    /\ script = "interview"
    /\ calls[c].pc = "render"
    /\ \E renderedBuffer \in {Render(calls[c].combined, sampleRate)} :
       \E w \in {bufferToWave(renderedBuffer, BufferLength(renderedBuffer))} :
          IF w.thrown
          THEN /\ calls' = [calls EXCEPT ![c] = Caught(calls[c], "encode", 0 - 1)]
               /\ lastAlert' = AlertCombine
               /\ UNCHANGED combinedAudioBlob
          ELSE /\ calls' = [calls EXCEPT ![c] =
                              [calls[c] EXCEPT !.pc = "done",
                                               !.combined = <<>>,
                                               !.blob = WavBlob(w.bytes),
                                               !.outcome = Returned(WavBlob(w.bytes)),
                                               !.wavePos = w.pos,
                                               !.waveOffset = w.offset,
                                               !.fin = "saving"]]
               /\ combinedAudioBlob' = WavBlob(w.bytes)
               /\ UNCHANGED lastAlert
    /\ FinishResumes
    /\ UIUnchanged
    /\ DocsUnchanged
    /\ UNCHANGED chat
    /\ FormUnchanged
    /\ UNCHANGED answeredOn
    /\ UNCHANGED << recorder, recordBtnDisabled, navDisabled, questions,
                    currentQuestionIndex, responses, audioResponses,
                    recordedResponses, audioBlob, createVoiceDisabled, dispatched >>

\* startRendering resolves in combineAudioAndFinish: bufferToWave encodes
\* the rendered buffer, the blob becomes audioBlob and the create button is
\* enabled; the function returns nothing.
RenderResolvedApp(c) ==
    /\ script = "app"
    /\ calls[c].pc = "render"
    /\ \E renderedBuffer \in {Render(calls[c].combined, sampleRate)} :
       \E w \in {appBufferToWave(renderedBuffer, BufferLength(renderedBuffer))} :
          IF w.thrown
          THEN /\ calls' = [calls EXCEPT ![c] = Caught(calls[c], "encode", 0 - 1)]
               /\ lastAlert' = AlertCombine
               /\ UNCHANGED << audioBlob, createVoiceDisabled, profileName >>
          ELSE /\ calls' = [calls EXCEPT ![c] =
                              [calls[c] EXCEPT !.pc = "done",
                                               !.combined = <<>>,
                                               !.blob = WavBlob(w.bytes),
                                               !.outcome = Returned(Undefined),
                                               !.wavePos = w.pos,
                                               !.waveOffset = w.offset]]
               /\ audioBlob' = WavBlob(w.bytes)
               /\ createVoiceDisabled' = FALSE
               /\ profileName' = IF Len(recordedResponses) > 0 /\ profileName = ""
                                 THEN DefaultName ELSE profileName
               /\ UNCHANGED lastAlert
    /\ UIUnchanged
    /\ DocsUnchanged
    /\ UNCHANGED chat
    /\ UNCHANGED << sampleVoice, cloneRequests, lastVoiceId >>
    /\ UNCHANGED answeredOn
    /\ UNCHANGED << recorder, recordBtnDisabled, navDisabled, containerVisible,
                    questions, currentQuestionIndex, responses, isInterviewComplete,
                    audioResponses, combinedAudioBlob, recordedResponses, dispatched >>

(***************************************************************************)
(* Part 8.  Navigation (VoiceInterviewSystem and the cloning page).        *)
(***************************************************************************)

\* startInterview: the server returns n questions, showQuestion(0) runs and
\* the response container is shown.
StartInterview(n) ==
    /\ script = "interview" /\ questions = 0
    /\ questions' = n
    /\ currentQuestionIndex' = 0
    /\ containerVisible' = TRUE
    /\ UIUnchanged
    /\ DocsUnchanged
    /\ UNCHANGED chat
    /\ FormUnchanged
    /\ UNCHANGED answeredOn
    /\ UNCHANGED << recorder, recordBtnDisabled, navDisabled, responses,
                    isInterviewComplete, audioResponses, combinedAudioBlob,
                    recordedResponses, audioBlob, createVoiceDisabled, calls,
                    dispatched, lastAlert >>

\* Click on Next Question (shown on every question but the last).
HandleNextQuestion ==
    /\ script = "interview" /\ containerVisible /\ ~navDisabled
    /\ currentQuestionIndex < questions - 1
    /\ IF Len(audioResponses) <= currentQuestionIndex
       THEN /\ lastAlert' = AlertNext
            /\ UNCHANGED << responses, currentQuestionIndex >>
       ELSE /\ responses' = responses \cup {currentQuestionIndex}
            /\ currentQuestionIndex' = currentQuestionIndex + 1
            /\ UNCHANGED lastAlert
    /\ UIUnchanged
    /\ DocsUnchanged
    /\ UNCHANGED chat
    /\ FormUnchanged
    /\ UNCHANGED answeredOn
    /\ UNCHANGED << recorder, recordBtnDisabled, navDisabled, containerVisible,
                    questions, isInterviewComplete, audioResponses,
                    combinedAudioBlob, recordedResponses, audioBlob,
                    createVoiceDisabled, calls, dispatched >>

\* Click on Finish Interview (shown on the last question): without an answer
\* for the current question it alerts; otherwise it saves the response and
\* calls combineAudioRecordings, which runs up to its first await.
FinishInterview ==
    /\ script = "interview" /\ containerVisible /\ ~navDisabled
    /\ questions > 0 /\ currentQuestionIndex = questions - 1
    /\ Len(calls) < MaxCalls
    /\ IF Len(audioResponses) > currentQuestionIndex
       THEN /\ responses' = responses \cup {currentQuestionIndex}
            /\ calls' = Append(calls, NewCall(audioResponses))
            /\ UNCHANGED lastAlert
       ELSE /\ lastAlert' = AlertFinish
            /\ UNCHANGED << responses, calls >>
    /\ UIUnchanged
    /\ DocsUnchanged
    /\ UNCHANGED chat
    /\ FormUnchanged
    /\ UNCHANGED answeredOn
    /\ UNCHANGED << recorder, recordBtnDisabled, navDisabled, containerVisible,
                    questions, currentQuestionIndex, isInterviewComplete,
                    audioResponses, combinedAudioBlob, recordedResponses, audioBlob,
                    createVoiceDisabled, dispatched >>

\* The fetch of /save-interview-responses settles: when it resolved and a
\* combined blob exists, interviewComplete is dispatched with it.  The
\* listener of the page takes the blob as its audioBlob, enables the create
\* button and, when the name field is empty and the first question asks
\* for a name, fills in a default name.
SaveResponsesSettled(c, ok) ==
    /\ script = "interview"
    /\ calls[c].fin = "saving"
    /\ calls' = [calls EXCEPT ![c].fin = "end"]
    /\ IF ok /\ ~IsNull(combinedAudioBlob)
       THEN /\ dispatched' = Append(dispatched, combinedAudioBlob)
            /\ audioBlob' = combinedAudioBlob
            /\ createVoiceDisabled' = FALSE
            /\ \E asksName \in BOOLEAN :
                  profileName' = IF responses # {} /\ profileName = "" /\ asksName
                                 THEN DefaultName ELSE profileName
       ELSE UNCHANGED << dispatched, audioBlob, createVoiceDisabled, profileName >>
    /\ UIUnchanged
    /\ DocsUnchanged
    /\ UNCHANGED chat
    /\ UNCHANGED << sampleVoice, cloneRequests, lastVoiceId, answeredOn >>
    /\ UNCHANGED << recorder, recordBtnDisabled, navDisabled, containerVisible,
                    questions, currentQuestionIndex, responses, isInterviewComplete,
                    audioResponses, combinedAudioBlob, recordedResponses, lastAlert >>

\* Click on Next Question of the cloning page: showQuestion(index + 1).
AppNextQuestion ==
    /\ script = "app" /\ ~navDisabled
    /\ currentQuestionIndex < questions - 1
    /\ currentQuestionIndex' = currentQuestionIndex + 1
    /\ UIUnchanged
    /\ DocsUnchanged
    /\ UNCHANGED chat
    /\ FormUnchanged
    /\ UNCHANGED answeredOn
    /\ UNCHANGED << recorder, recordBtnDisabled, navDisabled, containerVisible,
                    questions, responses, isInterviewComplete, audioResponses,
                    combinedAudioBlob, recordedResponses, audioBlob,
                    createVoiceDisabled, calls, dispatched, lastAlert >>

\* Click on Finish Recording of the cloning page: combineAudioAndFinish()
\* runs up to its first await.
AppFinishRecording ==
    /\ script = "app" /\ ~navDisabled
    /\ currentQuestionIndex = questions - 1
    /\ Len(calls) < MaxCalls
    /\ calls' = Append(calls, NewCall(recordedResponses))
    /\ lastAlert' = IF Len(recordedResponses) = 0 THEN AlertNoRecord ELSE lastAlert
    /\ UIUnchanged
    /\ DocsUnchanged
    /\ UNCHANGED chat
    /\ FormUnchanged
    /\ UNCHANGED answeredOn
    /\ UNCHANGED << recorder, recordBtnDisabled, navDisabled, containerVisible,
                    questions, currentQuestionIndex, responses, isInterviewComplete,
                    audioResponses, combinedAudioBlob, recordedResponses, audioBlob,
                    createVoiceDisabled, dispatched >>

Next ==
    \/ ToggleRecordingStart
    \/ StartGranted
    \/ StartDenied
    \/ ToggleRecordingStop
    \/ \E data \in mic \cup {"empty"} : RecorderOnStop(data)
    \/ \E n \in 1..MaxQuestions : StartInterview(n)
    \/ HandleNextQuestion
    \/ FinishInterview
    \/ \E c \in 1..Len(calls) : DecodeResolved(c)
    \/ \E c \in 1..Len(calls) : DecodeRejected(c)
    \/ \E c \in 1..Len(calls) : RenderResolvedInterview(c)
    \/ \E c \in 1..Len(calls) : RenderResolvedApp(c)
    \/ \E c \in 1..Len(calls), ok \in BOOLEAN : SaveResponsesSettled(c, ok)
    \/ AppNextQuestion
    \/ AppFinishRecording

Spec == Init /\ [][Next]_vars

(***************************************************************************)
(* Part 8b.  The sample voice button and the voice clone form.             *)
(*                                                                         *)
(* The page of VoiceInterviewSystem runs the handlers of app.js; the       *)
(* cloning page script carries its own copy of them.  The two copies of    *)
(* the submit handler differ in one respect: the loop that builds          *)
(* interview_data reads `questions` and `recordedResponses`, which the     *)
(* cloning page script declares and app.js does not.                       *)
(***************************************************************************)

MaxClones == 1         \* POSTs to /clone-voice in one session

\* What the user may type into the name field.
ProfileNames == {"", "Ann"}

\* The Blob of /backend/sample_voice.mp3, and a voice id of the service.
SampleBlob == [type |-> "audio/mpeg"]
VoiceId(i) == [type |-> "string", request |-> i]

RecordingUnchanged ==
    UNCHANGED << recorder, navDisabled, containerVisible, questions,
                 currentQuestionIndex, responses, isInterviewComplete,
                 audioResponses, combinedAudioBlob, recordedResponses, calls,
                 dispatched, answeredOn >>

\* Click on Use Sample Voice Instead: the button disables itself and the
\* handler waits for the fetch of the sample file.
UseSampleVoice ==
    /\ sampleVoice = "idle"
    /\ sampleVoice' = "loading"
    /\ UIUnchanged
    /\ DocsUnchanged
    /\ UNCHANGED chat
    /\ RecordingUnchanged
    /\ UNCHANGED << recordBtnDisabled, audioBlob, createVoiceDisabled, lastAlert,
                    profileName, cloneRequests, lastVoiceId >>

\* The fetch resolved and response.blob() gave the body: it becomes
\* audioBlob, the create button is enabled and the record button disabled.
SampleVoiceLoaded ==
    /\ sampleVoice = "loading"
    /\ sampleVoice' = "loaded"
    /\ audioBlob' = SampleBlob
    /\ createVoiceDisabled' = FALSE
    /\ recordBtnDisabled' = TRUE
    /\ lastAlert' = AlertSampleOk
    /\ UIUnchanged
    /\ DocsUnchanged
    /\ UNCHANGED chat
    /\ RecordingUnchanged
    /\ UNCHANGED << profileName, cloneRequests, lastVoiceId >>

\* The fetch rejected: the handler alerts and gives the button back.
SampleVoiceFailed ==
    /\ sampleVoice = "loading"
    /\ sampleVoice' = "idle"
    /\ lastAlert' = AlertSampleErr
    /\ UIUnchanged
    /\ DocsUnchanged
    /\ UNCHANGED chat
    /\ RecordingUnchanged
    /\ UNCHANGED << recordBtnDisabled, audioBlob, createVoiceDisabled,
                    profileName, cloneRequests, lastVoiceId >>

\* The user edits the name field of the profile form.
SetProfileName(name) ==
    /\ name # profileName
    /\ profileName' = name
    /\ UIUnchanged
    /\ DocsUnchanged
    /\ UNCHANGED chat
    /\ RecordingUnchanged
    /\ UNCHANGED << recordBtnDisabled, audioBlob, createVoiceDisabled, lastAlert,
                    sampleVoice, cloneRequests, lastVoiceId >>

\* The handler passed both tests: it disables the button and sends the
\* POST.  In app.js the loop over `questions` throws a ReferenceError
\* before that, and the handler ends there.
SendCloneRequest ==
    IF script = "interview"
    THEN UNCHANGED << createVoiceDisabled, cloneRequests >>
    ELSE /\ createVoiceDisabled' = TRUE
         /\ cloneRequests' = Append(cloneRequests,
                                    [audio |-> audioBlob, name |-> profileName,
                                     state |-> "pending"])

\* Variant of the submit handler without the test of the name.
SubmitCloneFormAnyName ==
    /\ ~createVoiceDisabled
    /\ Len(cloneRequests) < MaxClones
    /\ IF IsNull(audioBlob)
       THEN /\ lastAlert' = AlertRecordFirst
            /\ UNCHANGED << createVoiceDisabled, cloneRequests >>
       ELSE /\ SendCloneRequest
            /\ UNCHANGED lastAlert
    /\ UIUnchanged
    /\ DocsUnchanged
    /\ UNCHANGED chat
    /\ RecordingUnchanged
    /\ UNCHANGED << recordBtnDisabled, audioBlob, profileName, sampleVoice,
                    lastVoiceId >>

\* Submit of the voice clone form, which its only control, the create
\* button, causes when enabled: without an audioBlob, or with an empty
\* name, the handler alerts and returns.
SubmitCloneForm ==
    /\ ~createVoiceDisabled
    /\ Len(cloneRequests) < MaxClones
    /\ IF IsNull(audioBlob)
       THEN /\ lastAlert' = AlertRecordFirst
            /\ UNCHANGED << createVoiceDisabled, cloneRequests >>
       ELSE IF profileName = ""
       THEN /\ lastAlert' = AlertEnterName
            /\ UNCHANGED << createVoiceDisabled, cloneRequests >>
       ELSE /\ SendCloneRequest
            /\ UNCHANGED lastAlert
    /\ UIUnchanged
    /\ DocsUnchanged
    /\ UNCHANGED chat
    /\ RecordingUnchanged
    /\ UNCHANGED << recordBtnDisabled, audioBlob, profileName, sampleVoice,
                    lastVoiceId >>

\* window.pendingDocuments.
PendingDocuments == docArrays[Len(docArrays)]

\* The request uploadPendingDocuments sends for a pending document:
\* documents with a temp_id go to /associate-document, the others to
\* /upload-document.  `by` is the invocation that sent it, 0 for the form.
UrlOf(docInfo) == IF docInfo.temp THEN "/associate-document" ELSE "/upload-document"
DocRequestOf(docInfo, agentId, by) ==
    [doc |-> docInfo.file, url |-> UrlOf(docInfo), agent |-> agentId, by |-> by]

\* uploadPendingDocuments(agentId), called with a non-empty list, up to its
\* first await: the for-of loop takes an iterator of the current array and
\* its first document.
UploadEntry(agentId) ==
    [arr |-> Len(docArrays), agentId |-> agentId,
     totalDocs |-> Len(PendingDocuments), started |-> PendingDocuments,
     uploadedCount |-> 0, failedCount |-> 0, index |-> 1, pc |-> "await",
     pendingAtEnd |-> 0 - 1]

\* The POST settles: a response with response.ok stores the voice id in
\* window.lastVoiceId, starts uploadPendingDocuments when documents are
\* pending and dispatches agentCreated, whose listener calls loadDocuments;
\* an error response or a rejection alerts and enables the button again.
CloneSettled(i, ok) ==
    /\ cloneRequests[i].state = "pending"
    /\ IF ok
       THEN /\ cloneRequests' = [cloneRequests EXCEPT ![i].state = "ok"]
            /\ lastVoiceId' = VoiceId(i)
            /\ IF Len(PendingDocuments) > 0
               THEN /\ uploads' = Append(uploads, UploadEntry(VoiceId(i)))
                    /\ sentDocs' = Append(sentDocs,
                                          DocRequestOf(PendingDocuments[1], VoiceId(i),
                                                       Len(uploads) + 1))
               ELSE UNCHANGED << uploads, sentDocs >>
            /\ loads' = loads + 1
            /\ UNCHANGED << createVoiceDisabled, lastAlert >>
       ELSE /\ cloneRequests' = [cloneRequests EXCEPT ![i].state = "failed"]
            /\ lastAlert' = AlertCloneError
            /\ createVoiceDisabled' = FALSE
            /\ UNCHANGED << lastVoiceId, uploads, sentDocs, loads >>
    /\ UNCHANGED << docArrays, docRequest, docCount, removedDocs, docButtons >>
    /\ UIUnchanged
    /\ UNCHANGED chat
    /\ RecordingUnchanged
    /\ UNCHANGED << recordBtnDisabled, audioBlob, profileName, sampleVoice >>

\* The page with its forms, in a browser of one sample rate.
InitClone ==
    /\ InitCommon
    /\ chat = NoChat
    /\ sampleRate = 48000
    /\ mic = {ChunkA, ChunkBad}
    /\ probe = NoProbe

NextClone ==
    \/ Next
    \/ UseSampleVoice
    \/ SampleVoiceLoaded
    \/ SampleVoiceFailed
    \/ \E name \in ProfileNames : SetProfileName(name)
    \/ SubmitCloneForm
    \/ \E i \in 1..Len(cloneRequests), ok \in BOOLEAN : CloneSettled(i, ok)

SpecClone == InitClone /\ [][NextClone]_vars

(***************************************************************************)
(* Part 8c.  Documents: the upload form, the pending list with its Remove  *)
(* buttons, and uploadPendingDocuments.                                    *)
(*                                                                         *)
(* A document is the number of its submit.  window.pendingDocuments is an  *)
(* array object that the handlers push to and splice; the for-of loop of   *)
(* uploadPendingDocuments holds an iterator of the array it started on,    *)
(* which reads the array's length and element at each step, while          *)
(* `window.pendingDocuments = []` at its end installs a new array.         *)
(***************************************************************************)

MaxDocs == 2           \* documents submitted through the upload form

AlertSelectDoc   == "Please select a document to upload."
AlertUploadError == "Error: Failed to upload document"
AlertUploadOk    == "Document uploaded successfully"
AlertDocFailed   == "Failed to associate document"

Outcomes == {"ok", "error", "throw"}

FormStateUnchanged ==
    UNCHANGED << recordBtnDisabled, audioBlob, createVoiceDisabled, profileName,
                 sampleVoice, cloneRequests, lastVoiceId >>

\* Submit of the document upload form, whose button is disabled while a
\* request of the form is in flight: without a file it alerts; without an
\* agent id the file goes to /upload-temp-document; with one it goes to
\* /upload-document for that agent.
SubmitDocument(hasFile) ==
    /\ docRequest.kind = "none"
    /\ docCount < MaxDocs
    /\ IF ~hasFile
       THEN /\ lastAlert' = AlertSelectDoc
            /\ UNCHANGED << docRequest, docCount, sentDocs >>
       ELSE /\ docCount' = docCount + 1
            /\ UNCHANGED lastAlert
            /\ IF lastVoiceId = Undefined
               THEN /\ docRequest' = [kind |-> "temp", doc |-> docCount + 1]
                    /\ UNCHANGED sentDocs
               ELSE /\ docRequest' = [kind |-> "direct", doc |-> docCount + 1]
                    /\ sentDocs' = Append(sentDocs,
                                          [doc |-> docCount + 1, url |-> "/upload-document",
                                           agent |-> lastVoiceId, by |-> 0])
    /\ UNCHANGED << docArrays, uploads, removedDocs, docButtons, loads >>
    /\ UIUnchanged
    /\ UNCHANGED chat
    /\ RecordingUnchanged
    /\ FormStateUnchanged

\* The request to /upload-temp-document settles.  A response with
\* response.ok pushes the file with the temp_id the server gave (if it gave
\* one) and displayPendingDocuments renders the list anew, one Remove
\* button for each entry.
TempUploadSettled(outcome, hasTemp) ==
    /\ docRequest.kind = "temp"
    /\ docRequest' = NoRequest
    /\ IF outcome = "ok"
       THEN /\ docArrays' = [docArrays EXCEPT ![Len(docArrays)] =
                                Append(@, [file |-> docRequest.doc, temp |-> hasTemp])]
            /\ docButtons' = Len(PendingDocuments) + 1
            /\ UNCHANGED lastAlert
       ELSE /\ lastAlert' = AlertUploadError
            /\ UNCHANGED << docArrays, docButtons >>
    /\ UNCHANGED << docCount, uploads, sentDocs, removedDocs, loads >>
    /\ UIUnchanged
    /\ UNCHANGED chat
    /\ RecordingUnchanged
    /\ FormStateUnchanged

\* The request to /upload-document of the form settles; after a response
\* with response.ok the handler calls loadDocuments.
DirectUploadSettled(outcome) ==
    /\ docRequest.kind = "direct"
    /\ docRequest' = NoRequest
    /\ IF outcome = "ok"
       THEN /\ lastAlert' = AlertUploadOk
            /\ loads' = loads + 1
       ELSE /\ lastAlert' = AlertUploadError
            /\ UNCHANGED loads
    /\ UNCHANGED << docArrays, docCount, uploads, sentDocs, removedDocs, docButtons >>
    /\ UIUnchanged
    /\ UNCHANGED chat
    /\ RecordingUnchanged
    /\ FormStateUnchanged

\* array.splice(index, 1), index counted from 0.
Splice(arr, index) ==
    IF index < Len(arr)
    THEN SubSeq(arr, 1, index) \o SubSeq(arr, index + 2, Len(arr))
    ELSE arr

\* Click on the Remove button with data-index = index: the entry at that
\* index of window.pendingDocuments is spliced out and the list rendered
\* anew.
RemovePending(index) ==
    /\ index < docButtons
    /\ docArrays' = [docArrays EXCEPT ![Len(docArrays)] = Splice(@, index)]
    /\ removedDocs' = IF index < Len(PendingDocuments)
                      THEN removedDocs \cup {PendingDocuments[index + 1]}
                      ELSE removedDocs
    /\ docButtons' = Len(Splice(PendingDocuments, index))
    /\ UNCHANGED << docRequest, docCount, uploads, sentDocs, loads, lastAlert >>
    /\ UIUnchanged
    /\ UNCHANGED chat
    /\ RecordingUnchanged
    /\ FormStateUnchanged

\* The fetch of loadDocuments settles: whatever it brought, the contents
\* of documentsContainer are replaced, and the Remove buttons with them.
DocumentsLoaded ==
    /\ loads > 0
    /\ loads' = loads - 1
    /\ docButtons' = 0
    /\ UNCHANGED << docArrays, docRequest, docCount, uploads, sentDocs, removedDocs,
                    lastAlert >>
    /\ UIUnchanged
    /\ UNCHANGED chat
    /\ RecordingUnchanged
    /\ FormStateUnchanged

\* The request uploadPendingDocuments waits for settles: it counts the
\* document as uploaded or failed, and the iterator steps on.  If the array
\* has an element at the next index the loop sends it; otherwise the loop
\* ends, window.pendingDocuments becomes a new empty array and
\* loadDocuments is called.
UploadRequestSettled(u, outcome) ==
    /\ uploads[u].pc = "await"
    /\ LET up      == uploads[u]
           arr     == docArrays[up.arr]
           counted == IF outcome = "ok"
                      THEN [up EXCEPT !.uploadedCount = @ + 1]
                      ELSE [up EXCEPT !.failedCount = @ + 1]
       IN  /\ lastAlert' = IF outcome = "ok" THEN lastAlert ELSE AlertDocFailed
           /\ IF up.index + 1 <= Len(arr)
              THEN /\ uploads' = [uploads EXCEPT ![u] =
                                     [counted EXCEPT !.index = up.index + 1]]
                   /\ sentDocs' = Append(sentDocs,
                                         DocRequestOf(arr[up.index + 1], up.agentId, u))
                   /\ UNCHANGED << docArrays, loads >>
              ELSE /\ uploads' = [uploads EXCEPT ![u] =
                                     [counted EXCEPT !.index = up.index + 1,
                                                     !.pc = "done",
                                                     !.pendingAtEnd = 0]]
                   /\ docArrays' = Append(docArrays, <<>>)
                   /\ loads' = loads + 1
                   /\ UNCHANGED sentDocs
    /\ UNCHANGED << docRequest, docCount, removedDocs, docButtons >>
    /\ UIUnchanged
    /\ UNCHANGED chat
    /\ RecordingUnchanged
    /\ FormStateUnchanged

\* The page with the sample voice, the clone form and the documents.
InitDocs ==
    /\ InitCommon
    /\ chat = NoChat
    /\ sampleRate = 48000
    /\ mic = {ChunkA}
    /\ probe = NoProbe

NextDocs ==
    \/ UseSampleVoice
    \/ SampleVoiceLoaded
    \/ SampleVoiceFailed
    \/ \E name \in ProfileNames : SetProfileName(name)
    \/ SubmitCloneForm
    \/ \E i \in 1..Len(cloneRequests), ok \in BOOLEAN : CloneSettled(i, ok)
    \/ \E hasFile \in BOOLEAN : SubmitDocument(hasFile)
    \/ \E outcome \in Outcomes, hasTemp \in BOOLEAN : TempUploadSettled(outcome, hasTemp)
    \/ \E outcome \in Outcomes : DirectUploadSettled(outcome)
    \/ \E index \in 0..(MaxDocs - 1) : RemovePending(index)
    \/ DocumentsLoaded
    \/ \E u \in 1..Len(uploads), outcome \in Outcomes : UploadRequestSettled(u, outcome)

SpecDocs == InitDocs /\ [][NextDocs]_vars

(***************************************************************************)
(* Part 8d.  The event-stream reader of the chat (sendMessage and          *)
(* sendInitialGreeting run the same loop).                                 *)
(*                                                                         *)
(* Text is a sequence of characters and the body of the response a         *)
(* sequence of bytes.  The characters are ASCII, one byte each, but for    *)
(* "E", which stands for a letter of two bytes, "C3" "A9".  The JSON text  *)
(* of an event is written {letters} for an object with a chunk of those    *)
(* letters and {!} for an object with done: true.                          *)
(***************************************************************************)

MaxEvents == 3         \* events in one response

LF == "\n"
Letters == {"x", "E"}
DataPrefix == << "d", "a", "t", "a", ":", " " >>

\* The events a server may send: chunks of text (one of them empty), the
\* end marker, and a comment line, which is no data event.
ChunkEvent(text) == [type |-> "data", chunk |-> text, done |-> FALSE]
DoneEvent == [type |-> "data", chunk |-> <<>>, done |-> TRUE]
CommentEvent == [type |-> "comment", chunk |-> <<>>, done |-> FALSE]
EventKinds == { ChunkEvent(<< "x" >>), ChunkEvent(<< "E" >>), ChunkEvent(<< "x", "E" >>),
                ChunkEvent(<<>>), DoneEvent, CommentEvent }

\* UTF-8 of a text.
RECURSIVE Utf8(_)
Utf8(text) ==
    IF text = <<>> THEN <<>>
    ELSE (IF text[1] = "E" THEN << "C3", "A9" >> ELSE << text[1] >>) \o Utf8(Tail(text))

\* The text of an event as the server writes it, blank line included.
EventText(e) ==
    IF e.type = "comment" THEN << ":", LF, LF >>
    ELSE DataPrefix \o << "{" >> \o (IF e.done THEN << "!" >> ELSE e.chunk)
                    \o << "}" >> \o << LF, LF >>

RECURSIVE StreamText(_)
StreamText(evs) ==
    IF evs = <<>> THEN <<>> ELSE EventText(evs[1]) \o StreamText(Tail(evs))

\* decoder.decode(value, { stream: true }): the bytes held back from the
\* last call come first; an incomplete letter at the end is held back.
RECURSIVE DecodeBytes(_)
DecodeBytes(bytes) ==
    IF bytes = <<>> THEN [text |-> <<>>, carry |-> <<>>]
    ELSE IF bytes[1] = "C3"
    THEN IF Len(bytes) = 1 THEN [text |-> <<>>, carry |-> bytes]
         ELSE LET rest == DecodeBytes(SubSeq(bytes, 3, Len(bytes)))
              IN  [text |-> << "E" >> \o rest.text, carry |-> rest.carry]
    ELSE LET rest == DecodeBytes(Tail(bytes))
         IN  [text |-> << bytes[1] >> \o rest.text, carry |-> rest.carry]

\* buffer.split('\n\n'): the pieces between the separators, found from the
\* left.
SeparatorsAt(text) == { i \in 1..(Len(text) - 1) : text[i] = LF /\ text[i + 1] = LF }

RECURSIVE Split(_)
Split(text) ==
    IF SeparatorsAt(text) = {} THEN << text >>
    ELSE LET i == CHOOSE j \in SeparatorsAt(text) : \A k \in SeparatorsAt(text) : j <= k
         IN  << SubSeq(text, 1, i - 1) >> \o Split(SubSeq(text, i + 2, Len(text)))

\* Variant of the pop that forgets the incomplete piece.
PopForgets(pieces) == <<>>

\* events.pop() || '': the last piece stays in the buffer.
Pop(pieces) == pieces[Len(pieces)]

\* event.startsWith('data: ') and event.substring(6).
StartsWithData(event) == Len(event) >= 6 /\ SubSeq(event, 1, 6) = DataPrefix
Substring6(event) == SubSeq(event, 7, Len(event))

\* JSON.parse of the data string; thrown when it is no JSON text.
JsonParse(dataStr) ==
    IF Len(dataStr) >= 2 /\ dataStr[1] = "{" /\ dataStr[Len(dataStr)] = "}"
    THEN LET inner == SubSeq(dataStr, 2, Len(dataStr) - 1)
         IN  IF inner = << "!" >>
             THEN [thrown |-> FALSE, data |-> DoneEvent]
             ELSE IF \A k \in 1..Len(inner) : inner[k] \in Letters
             THEN [thrown |-> FALSE, data |-> ChunkEvent(inner)]
             ELSE [thrown |-> TRUE, data |-> CommentEvent]
    ELSE [thrown |-> TRUE, data |-> CommentEvent]

\* The body of the for loop over the complete events: a data event that
\* parses adds its chunk, if it has one, to fullResponse.
RECURSIVE ProcessEvents(_, _, _)
ProcessEvents(events, fullResponse, handled) ==
    IF events = <<>> THEN [fullResponse |-> fullResponse, handled |-> handled]
    ELSE LET event == events[1]
             parsed == JsonParse(Substring6(event))
         IN  IF StartsWithData(event) /\ ~parsed.thrown
             THEN ProcessEvents(Tail(events),
                                IF parsed.data.chunk # <<>>
                                THEN fullResponse \o parsed.data.chunk ELSE fullResponse,
                                Append(handled, parsed.data))
             ELSE ProcessEvents(Tail(events), fullResponse, handled)

\* Where a read ended: between two events, between the two line feeds of
\* a separator, inside a letter of two bytes, or elsewhere inside an
\* event.
CutKind(stream, pos) ==
    IF pos = Len(stream) \/ (stream[pos] = LF /\ stream[pos - 1] = LF) THEN "boundary"
    ELSE IF stream[pos] = LF THEN "separator"
    ELSE IF stream[pos] = "C3" THEN "letter"
    ELSE "event"

\* One pass of the while loop in which reader.read() gives the next k
\* bytes of the body.
ReaderRead(k) ==
    /\ ~chat.finished
    /\ chat.pos + k <= Len(chat.stream)
    /\ LET value   == SubSeq(chat.stream, chat.pos + 1, chat.pos + k)
           decoded == DecodeBytes(chat.carry \o value)
           buffer  == chat.buffer \o decoded.text
           events  == Split(buffer)
           result  == ProcessEvents(SubSeq(events, 1, Len(events) - 1),
                                    chat.fullResponse, chat.handled)
       IN  chat' = [chat EXCEPT !.pos = chat.pos + k,
                                !.carry = decoded.carry,
                                !.buffer = Pop(events),
                                !.fullResponse = result.fullResponse,
                                !.handled = result.handled,
                                !.cuts = @ \cup {CutKind(chat.stream, chat.pos + k)}]
    /\ UNCHANGED << script, sampleRate, mic, probe, recorder, recordBtnDisabled,
                    navDisabled, containerVisible, questions, currentQuestionIndex,
                    responses, isInterviewComplete, audioResponses, combinedAudioBlob,
                    recordedResponses, audioBlob, createVoiceDisabled, calls,
                    dispatched, lastAlert, answeredOn >>
    /\ FormUnchanged
    /\ DocsUnchanged

\* reader.read() reports done at the end of the body: the loop ends.
ReaderDone ==
    /\ ~chat.finished
    /\ chat.pos = Len(chat.stream)
    /\ chat' = [chat EXCEPT !.finished = TRUE]
    /\ UNCHANGED << script, sampleRate, mic, probe, recorder, recordBtnDisabled,
                    navDisabled, containerVisible, questions, currentQuestionIndex,
                    responses, isInterviewComplete, audioResponses, combinedAudioBlob,
                    recordedResponses, audioBlob, createVoiceDisabled, calls,
                    dispatched, lastAlert, answeredOn >>
    /\ FormUnchanged
    /\ DocsUnchanged

\* The responses of the chat endpoint, up to MaxEvents events each.
EventLists == UNION { [1..n -> EventKinds] : n \in 0..MaxEvents }

InitChat ==
    /\ InitCommon
    /\ script = "interview"
    /\ sampleRate = 48000
    /\ mic = {ChunkA}
    /\ probe = NoProbe
    /\ \E evs \in EventLists :
          chat = [NoChat EXCEPT !.events = evs, !.stream = Utf8(StreamText(evs)),
                                !.finished = FALSE]

NextChat ==
    \/ \E k \in 1..Len(chat.stream) : ReaderRead(k)
    \/ ReaderDone

SpecChat == InitChat /\ [][NextChat]_vars

(***************************************************************************)
(* Part 9.  The combine pipeline as a function of its input.               *)
(*                                                                         *)
(* combineAudioRecordings reads this.audioResponses and the sample rate    *)
(* and nothing else of the page; run on a list that no longer changes, its *)
(* result is a function of the two.  The specification SpecCombine applies *)
(* it to every list of up to MaxResponses recorded blobs, one-second takes *)
(* included, and keeps the length and the first 44 bytes of the file.      *)
(***************************************************************************)

\* The decode loop over the whole list: the buffers decoded so far, or the
\* index of the blob decodeAudioData rejected.
RECURSIVE DecodeLoop(_, _, _)
DecodeLoop(list, rate, bufs) ==
    IF Len(bufs) = Len(list) THEN [failed |-> FALSE, audioBuffers |-> bufs]
    ELSE IF ~Decodable(list[Len(bufs) + 1])
         THEN [failed |-> TRUE, audioBuffers |-> bufs]
         ELSE DecodeLoop(list, rate, Append(bufs, Decode(list[Len(bufs) + 1], rate)))

\* combineAudioRecordings on the list: how it ended, whether it returned a
\* blob or nothing and, when it produced a file, the file's bytes.
CombineAudioRecordings(list, rate) ==
    IF Len(list) = 0
    THEN [failure |-> "empty", failedIndex |-> 0 - 1, blob |-> FALSE, bytes |-> <<>>]
    ELSE LET d == DecodeLoop(list, rate, <<>>)
         IN  IF d.failed
             THEN [failure |-> "decode", failedIndex |-> Len(d.audioBuffers),
                   blob |-> FALSE, bytes |-> <<>>]
             ELSE LET cc == Concatenate(d.audioBuffers, rate)
                  IN  IF cc.thrown
                      THEN [failure |-> "concat", failedIndex |-> 0 - 1,
                            blob |-> FALSE, bytes |-> <<>>]
                      ELSE LET renderedBuffer == Render(cc.data, rate)
                               w == bufferToWave(renderedBuffer, BufferLength(renderedBuffer))
                           IN  IF w.thrown
                               THEN [failure |-> "encode", failedIndex |-> 0 - 1,
                                     blob |-> FALSE, bytes |-> <<>>]
                               ELSE [failure |-> "none", failedIndex |-> 0 - 1,
                                     blob |-> TRUE, bytes |-> w.bytes]

\* The blobs a take can leave: one chunk of any kind, or no data at all.
RecordedBlobs == { <<k>> : k \in {ChunkA, ChunkB, ChunkSec, ChunkBad} } \cup { <<>> }

\* The lists of up to n recorded blobs.
BlobLists(n) == UNION { [1..k -> RecordedBlobs] : k \in 0..n }

InitCombine ==
    /\ InitCommon
    /\ chat = NoChat
    /\ script = "interview"
    /\ sampleRate \in SampleRates
    /\ mic = {ChunkA, ChunkB, ChunkSec, ChunkBad}
    /\ \E list \in BlobLists(MaxResponses) :
          probe = [NoProbe EXCEPT !.input = list, !.done = FALSE]

\* The pipeline runs on probe.input.  The state keeps the size and header
\* of the blob in place of its bytes.
ApplyCombine ==
    /\ ~probe.done
    /\ \E r \in {CombineAudioRecordings(probe.input, sampleRate)} :
          probe' = [input       |-> probe.input,
                    done        |-> TRUE,
                    outcome     |-> Returned(IF r.blob THEN [type |-> "audio/wav"]
                                             ELSE Undefined),
                    failure     |-> r.failure,
                    failedIndex |-> r.failedIndex,
                    size        |-> Len(r.bytes),
                    header      |-> IF r.failure = "none" THEN SubSeq(r.bytes, 1, 44) ELSE <<>>]
    /\ UNCHANGED << script, sampleRate, mic, recorder, recordBtnDisabled, navDisabled,
                    containerVisible, questions, currentQuestionIndex, responses,
                    isInterviewComplete, audioResponses, combinedAudioBlob,
                    recordedResponses, audioBlob, createVoiceDisabled, calls,
                    dispatched, lastAlert, answeredOn >>
    /\ FormUnchanged
    /\ DocsUnchanged
    /\ UNCHANGED chat

NextCombine == ApplyCombine

SpecCombine == InitCombine /\ [][NextCombine]_vars

(***************************************************************************)
(* Part 10.  Properties.                                                   *)
(***************************************************************************)

Calls == 1..Len(calls)

\* The invocation has run to its end / has produced a WAV blob.
Finished(c) == calls[c].pc = "done"
ProducedWav(c) == Finished(c) /\ ~IsNull(calls[c].blob)
WavBytes(c) == calls[c].blob.bytes

\* Every segment of the invocation's list was decoded.
AllDecoded(c) == Finished(c) /\ calls[c].failure \notin {"empty", "decode"}

\* Samples in the first k decoded segments, and in all of them.
LengthBefore(bufs, k) == SumSeq(BufferLengths(SubSeq(bufs, 1, k)))
TotalSampleCount(c) == LengthBefore(calls[c].audioBuffers, Len(calls[c].audioBuffers))

\* The j-th 16-bit sample of a WAV's data section (j from 0) and the number
\* of samples the data section holds.
DataSample(bytes, j) == ReadInt16(bytes, 44 + 2 * j)
DataSampleCount(bytes) == (Len(bytes) - 44) \div 2

\* The ASCII bytes of the four chunk tags.
BytesRIFF == << 82, 73, 70, 70 >>
BytesWAVE == << 87, 65, 86, 69 >>
BytesFmt  == << 102, 109, 116, 32 >>
BytesData == << 100, 97, 116, 97 >>

\* A promise rejected with the error v.
Thrown(v) == [kind |-> "thrown", value |-> v]

\* The data section of invocation c's WAV, cut at the cumulative segment
\* lengths, is the decoded segments in recording order.
SegmentsInOrder(c) ==
    LET bufs  == calls[c].audioBuffers
        bytes == WavBytes(c)
    IN  /\ \A k \in 1..Len(bufs) : bufs[k] = Decode(Segments[k], sampleRate)
        /\ Len(bytes) = 44 + 2 * TotalSampleCount(c)
        /\ \A k \in 1..Len(bufs) : \A i \in 1..BufferLength(bufs[k]) :
              DataSample(bytes, LengthBefore(bufs, k - 1) + i - 1)
                  = EncodeSample(bufs[k].channels[1][i])

\* C1 (order preservation): every combine of a non-empty list of decodable
\* segments produces a WAV whose data section, cut at the cumulative segment
\* lengths, holds segment k at the sample positions
\* [length of segments before k, length of segments up to k), sample for
\* sample and in recording order.
C1_OrderPreserved ==
    \A c \in Calls : AllDecoded(c) => ProducedWav(c) /\ SegmentsInOrder(c)

\* C1, restricted to the invocations that do produce a WAV: in each of them
\* the segments are in recording order, none dropped, duplicated or moved.
C1_OrderWhenProduced ==
    \A c \in Calls : ProducedWav(c) => SegmentsInOrder(c)

\* C1: a list of two decodable segments was combined and no WAV came out.
C1_Witness ==
    \E c \in Calls : AllDecoded(c) /\ Len(calls[c].audioBuffers) = 2 /\ ~ProducedWav(c)

\* C1: a WAV was produced from two different segments.
C1_ProducedWitness ==
    \E c \in Calls : /\ ProducedWav(c) /\ Len(calls[c].audioBuffers) = 2
                     /\ calls[c].audioBuffers[1] # calls[c].audioBuffers[2]

\* C2 (length additivity): whenever combine allocates the combined buffer,
\* its length is the sum of the decoded segments' sample counts, and the
\* copies into it never run past its end.
C2_LengthAdditive ==
    \A c \in Calls : calls[c].allocated >= 0 =>
        /\ calls[c].allocated = TotalSampleCount(c)
        /\ calls[c].failure # "concat"

\* C2: the combined buffer was allocated shorter than the segments together.
C2_Witness ==
    \E c \in Calls : /\ calls[c].allocated >= 0
                     /\ calls[c].allocated < TotalSampleCount(c)
                     /\ calls[c].failure = "concat"

\* C3 (empty input): combine called with zero segments fails with an error
\* signalled to its caller, and produces no blob.
C3_EmptyInputError ==
    (probe.done /\ probe.input = <<>>) =>
        /\ probe.outcome = Thrown([name |-> "EmptyInputError"])
        /\ probe.size = 0

\* C3: combine was called with zero segments and returned normally, with
\* no value.
C3_Witness ==
    /\ probe.done /\ probe.input = <<>>
    /\ probe.failure = "empty"
    /\ probe.outcome = Returned(Undefined)

\* C4 (bad segment): when a segment fails to decode, combine fails with a
\* DecodeError that names the index of that segment, and returns no blob.
C4_DecodeError ==
    \A c \in Calls : calls[c].failure = "decode" =>
        /\ calls[c].outcome.kind = "thrown"
        /\ calls[c].outcome.value = [name |-> "DecodeError", index |-> calls[c].failedIndex]
        /\ IsNull(calls[c].blob)

\* C4: the second segment failed to decode; combine returned normally and
\* reported the generic alert.
C4_Witness ==
    \E c \in Calls : /\ calls[c].failure = "decode" /\ calls[c].failedIndex = 1
                     /\ calls[c].outcome = Returned(Undefined)
                     /\ calls[c].alert = AlertCombine

\* C5 (error propagation): every failed combine reaches its caller as a
\* failure, and finishInterview does not go on to complete the interview
\* after one.
C5_ErrorPropagation ==
    \A c \in Calls : (Finished(c) /\ calls[c].failure # "none") =>
        /\ calls[c].outcome.kind = "thrown"
        /\ (script = "interview" => ~isInterviewComplete)

\* C5: a combine failed under finishInterview, which completed the
\* interview all the same.
C5_Witness ==
    \E c \in Calls : /\ script = "interview"
                     /\ Finished(c) /\ calls[c].failure # "none"
                     /\ calls[c].outcome.kind = "returned"
                     /\ isInterviewComplete /\ ~containerVisible

\* C6 (header layout): every WAV the pipeline encodes starts with the
\* 44-byte header: "RIFF" at 0, "WAVE" at 8, "fmt " at 12, 16 at 16, 1 at 20,
\* one channel at 22, the sample rate at 24, sample rate * 2 at 28, block
\* align 2 at 32, 16 bits at 34, "data" at 36, all little-endian, and the
\* first sample at 44.
C6_HeaderLayout ==
    \A c \in Calls : ProducedWav(c) =>
        LET bytes == WavBytes(c)
        IN  /\ Len(bytes) >= 46
            /\ SubSeq(bytes, 1, 4) = BytesRIFF
            /\ SubSeq(bytes, 9, 12) = BytesWAVE
            /\ SubSeq(bytes, 13, 16) = BytesFmt
            /\ ReadUint32(bytes, 16) = 16
            /\ ReadUint16(bytes, 20) = 1
            /\ ReadUint16(bytes, 22) = 1
            /\ ReadUint32(bytes, 24) = sampleRate
            /\ ReadUint32(bytes, 28) = sampleRate * 1 * 2
            /\ ReadUint16(bytes, 32) = 1 * 2
            /\ ReadUint16(bytes, 34) = 16
            /\ SubSeq(bytes, 37, 40) = BytesData
            /\ DataSample(bytes, 0) = EncodeSample(calls[c].audioBuffers[1].channels[1][1])

\* C6: the cloning page encoded a WAV at 48000 Hz.
C6_Witness ==
    \E c \in Calls : ProducedWav(c) /\ script = "app" /\ sampleRate = 48000

\* C7 (size fields): in every encoded WAV of n samples the data size at 40
\* is 2 n, the chunk size at 4 is the file length less 8, the file length is
\* 44 plus the data size, and the write loop stops exactly at the end of the
\* file with all n samples written; no write falls outside the file.
C7_SizeFields ==
    \A c \in Calls :
        /\ calls[c].failure # "encode"
        /\ ProducedWav(c) =>
             LET bytes == WavBytes(c)
                 n     == calls[c].allocated
             IN  /\ n = TotalSampleCount(c)
                 /\ Len(bytes) = 44 + n * 1 * 2
                 /\ ReadUint32(bytes, 40) = n * 1 * 2
                 /\ ReadUint32(bytes, 4) = Len(bytes) - 8
                 /\ Len(bytes) = 44 + ReadUint32(bytes, 40)
                 /\ calls[c].wavePos = Len(bytes)
                 /\ calls[c].waveOffset = n

\* C7: a WAV of two segments was encoded and the loop ended at its last byte.
C7_Witness ==
    \E c \in Calls : /\ ProducedWav(c) /\ Len(calls[c].audioBuffers) = 2
                     /\ calls[c].waveOffset = TotalSampleCount(c)
                     /\ calls[c].wavePos = 44 + 2 * TotalSampleCount(c)

\* The pipeline ran on two takes of one second at 44100 Hz.
ExampleCombined ==
    /\ probe.done
    /\ sampleRate = 44100
    /\ probe.input = << <<ChunkSec>>, <<ChunkSec>> >>

\* C8 (header example, as the code has it): two mono segments of one second
\* at 44100 Hz combine into a WAV of 44 + 88200 * 1 * 2 = 176444 bytes with
\* data size 176400 at 40, sample rate 44100 at 24 and the bytes 52 49 46 46
\* (hex) at 0.
C8_ExampleMono ==
    ExampleCombined =>
        /\ probe.failure = "none"
        /\ probe.size = 176444
        /\ ReadUint32(probe.header, 40) = 176400
        /\ ReadUint32(probe.header, 24) = 44100
        /\ SubSeq(probe.header, 1, 4) = << 5 * 16 + 2, 4 * 16 + 9, 4 * 16 + 6, 4 * 16 + 6 >>

\* C8 (header example, as stated): the same combine gives a WAV of 352844
\* bytes with data size 352800 at 40, sample rate 44100 at 24 and the bytes
\* 52 49 46 46 (hex) at 0.
C8_Example ==
    ExampleCombined =>
        /\ probe.failure = "none"
        /\ probe.size = 352844
        /\ ReadUint32(probe.header, 40) = 352800
        /\ ReadUint32(probe.header, 24) = 44100
        /\ SubSeq(probe.header, 1, 4) = << 5 * 16 + 2, 4 * 16 + 9, 4 * 16 + 6, 4 * 16 + 6 >>

\* C8: the two one-second takes were combined into a file.
C8_Witness == ExampleCombined /\ probe.failure = "none" /\ probe.size > 44

\* n / d rounded to the nearest integer, halves away from zero (d > 0).
RoundDiv(n, d) ==
    IF n >= 0 THEN (2 * n + d) \div (2 * d) ELSE 0 - ((2 * (0 - n) + d) \div (2 * d))

\* round(s * 32768) for s < 0 and round(s * 32767) for s >= 0, for the
\* sample s = v / SampleDen.
RoundedScale(v) ==
    IF v < 0 THEN RoundDiv(v * 32768, SampleDen) ELSE RoundDiv(v * 32767, SampleDen)

\* The decoded sample behind the j-th data sample of invocation c's WAV.
RECURSIVE SamplesOf(_)
SamplesOf(bufs) ==
    IF bufs = <<>> THEN <<>> ELSE bufs[1].channels[1] \o SamplesOf(Tail(bufs))
SourceSample(c, j) == SamplesOf(calls[c].audioBuffers)[j + 1]

\* C9 (sample scaling): every sample s within [-1, 1] is stored as
\* round(s * 32768) when s < 0 and as round(s * 32767) when s >= 0.
C9_RoundedScaling ==
    \A c \in Calls : ProducedWav(c) =>
        \A j \in 0..(DataSampleCount(WavBytes(c)) - 1) :
            LET v == SourceSample(c, j)
            IN  (0 - SampleDen <= v /\ v <= SampleDen) =>
                    DataSample(WavBytes(c), j) = RoundedScale(v)

\* C9: the sample 0.25 was stored as 8191, where rounding gives 8192.
C9_Witness ==
    \E c \in Calls : ProducedWav(c) /\
        \E j \in 0..(DataSampleCount(WavBytes(c)) - 1) :
            /\ 4 * SourceSample(c, j) = SampleDen
            /\ DataSample(WavBytes(c), j) = 8191
            /\ RoundedScale(SourceSample(c, j)) = 8192

\* C10 (clamping): -1.0 is stored as -32768 and 1.0 as 32767; a sample above
\* 1.0 is stored as 1.0 is and a sample below -1.0 as -1.0 is; the value
\* handed to setInt16 is always within -32768 .. 32767.
C10_Clamping ==
    \A c \in Calls : ProducedWav(c) =>
        \A j \in 0..(DataSampleCount(WavBytes(c)) - 1) :
            LET v == SourceSample(c, j)
                e == DataSample(WavBytes(c), j)
            IN  /\ e = EncodeSample(v)
                /\ 0 - 32768 <= EncodeSample(v) /\ EncodeSample(v) <= 32767
                /\ v = 0 - SampleDen => e = 0 - 32768
                /\ v = SampleDen => e = 32767
                /\ v > SampleDen => e = EncodeSample(SampleDen)
                /\ v < 0 - SampleDen => e = EncodeSample(0 - SampleDen)

\* C10: a WAV holds the encodings of -1.5, -1.0, 1.0 and 1.5.
C10_Witness ==
    \E c \in Calls : ProducedWav(c) /\
        \A v \in {0 - (3 * SampleDen) \div 2, 0 - SampleDen, SampleDen, (3 * SampleDen) \div 2} :
            \E j \in 0..(DataSampleCount(WavBytes(c)) - 1) : SourceSample(c, j) = v

\* The questions that were on screen when some response was saved.
AnsweredQuestions == { answeredOn[j] : j \in 1..Len(answeredOn) }

\* C15 (interview gating): VoiceInterviewSystem has moved past question k
\* (a later question is shown, or finishInterview saved the response of the
\* last question and went on to combine) only if an answer was recorded
\* while question k was the current question.
C15_Gating ==
    script = "interview" =>
        /\ \A k \in 0..(currentQuestionIndex - 1) : k \in AnsweredQuestions
        /\ \A k \in responses : k \in AnsweredQuestions
        /\ (calls # <<>> => currentQuestionIndex \in AnsweredQuestions)

\* C15: both answers were recorded on the first question; Next Question
\* and Finish Interview went through, and the second question has a saved
\* response and a combine although nothing was recorded on it.
C15_Witness ==
    /\ script = "interview"
    /\ answeredOn = << 0, 0 >>
    /\ currentQuestionIndex = 1
    /\ 1 \in responses
    /\ calls # <<>>

\* C16 (single active recording): at most one microphone stream is live
\* and at most one MediaRecorder is active at any time.
C16_SingleRecording ==
    /\ Cardinality(LiveStreams) <= 1
    /\ Cardinality(ActiveRecorders) <= 1

\* C16: Record Answer was clicked twice before the first start() had its
\* stream; both starts went through, and two streams and two MediaRecorders
\* run while the AudioRecorder refers to the second only.
C16_Witness ==
    /\ recorder.pending = 0
    /\ recorder.isRecording
    /\ LiveStreams = {1, 2}
    /\ ActiveRecorders = {1, 2}
    /\ recorder.stream = 2 /\ recorder.recorder = 2

\* C17 (recording isolation): the blob stop() resolves with is made of the
\* data of the recording the most recent successful start began, that
\* recording's stream is stopped once stop() has resolved, and whenever
\* isRecording is false the fields stream, recorder and audioContext are
\* null.
C17_Isolation ==
    /\ recorder.resolved.from # 0 =>
          /\ recorder.resolved.from = recorder.resolved.current
          /\ ~recorder.media[recorder.resolved.from].live
    /\ ~recorder.isRecording =>
          recorder.stream = 0 /\ recorder.recorder = 0 /\ recorder.audioContext = 0

\* C17: stop() was called on the first MediaRecorder, a second start() got
\* its stream before onstop ran, and the blob of the first recording was
\* resolved while this.recorder was the second: the second stream was
\* stopped in place of the first, whose microphone stream stays live.
C17_Witness ==
    /\ recorder.resolved = [from |-> 1, current |-> 2]
    /\ ~recorder.isRecording /\ recorder.stream = 0
    /\ recorder.media[1].live
    /\ ~recorder.media[2].live

\* C18 (navigation locked while recording): in VoiceInterviewSystem, while
\* the recorder is recording (isRecording is true from a successful start
\* until onstop has run and the response was appended), the Next Question
\* and Finish Interview buttons are disabled.
C18_NavigationLocked ==
    (script = "interview" /\ recorder.isRecording) => navDisabled

\* C18: a second answer is being recorded; the buttons, enabled when the
\* first answer was saved, are disabled again.
C18_Witness ==
    /\ script = "interview"
    /\ Len(audioResponses) = 1
    /\ recorder.isRecording
    /\ navDisabled

\* A step of a combine call: invocation c is made, or moves on.
CombineSteps(c) ==
    /\ c \in 1..Len(calls')
    /\ (c > Len(calls) \/ calls'[c].pc # calls[c].pc
                       \/ calls'[c].audioBuffers # calls[c].audioBuffers)

\* C11 (no side effects): no step of a combine call changes state it shares
\* with its caller or with other calls (the result slots combinedAudioBlob
\* and audioBlob, the create button) or reports to the user by itself.
C11_NoSideEffects ==
    [][ (\E c \in 1..MaxCalls : CombineSteps(c)) =>
            UNCHANGED << combinedAudioBlob, audioBlob, createVoiceDisabled, lastAlert >> ]_vars

\* C11: a combine of the interview has written its blob into
\* this.combinedAudioBlob, the slot every call and the caller share.
C11_Witness ==
    \E c \in Calls : /\ script = "interview"
                     /\ ProducedWav(c)
                     /\ combinedAudioBlob = calls[c].blob

\* The finished invocation c ended as combineAudioRecordings, run on its
\* own with the list, ends: the same failure, or the same bytes.
SameAsAlone(c, list) ==
    LET r == CombineAudioRecordings(list, sampleRate)
    IN  /\ calls[c].failure = r.failure
        /\ ProducedWav(c) = r.blob
        /\ (r.blob => WavBytes(c) = r.bytes)

\* The segments invocation c read: those it decoded and, after a decode
\* failure, the one that failed.
SegmentsRead(c) ==
    Len(calls[c].audioBuffers) + (IF calls[c].failure = "decode" THEN 1 ELSE 0)

\* C12 (determinism): the result of every combine call is the one the list
\* of segments it was called with determines, whatever else the program
\* does meanwhile.
C12_Deterministic ==
    \A c \in Calls : Finished(c) => SameAsAlone(c, calls[c].input)

\* C12, restricted to the calls that read no segment beyond the list they
\* were called with: their result is the one that list determines.
C12_DeterministicWhenUnchanged ==
    \A c \in Calls :
        (Finished(c) /\ SegmentsRead(c) <= Len(calls[c].input)) =>
            SameAsAlone(c, calls[c].input)

\* C12: a combine was called with one segment; a second answer was saved
\* while the first was being decoded, and the WAV holds both.
C12_Witness ==
    \E c \in Calls : /\ ProducedWav(c)
                     /\ Len(calls[c].input) = 1
                     /\ Len(calls[c].audioBuffers) = 2
                     /\ DataSampleCount(WavBytes(c)) > BufferLength(calls[c].audioBuffers[1])

\* C13 (decode before concatenate): while a call is still decoding, no
\* combined buffer exists; once the combined buffer is allocated, every
\* segment the call was given has been decoded, and the buffers used for the
\* concatenation are the decoded segments in input order.
C13_DecodeBeforeConcat ==
    \A c \in Calls :
        /\ calls[c].pc = "decode" => (calls[c].allocated < 0 /\ calls[c].combined = <<>>)
        /\ calls[c].allocated >= 0 =>
              /\ Len(calls[c].audioBuffers) >= Len(calls[c].input)
              /\ \A k \in 1..Len(calls[c].audioBuffers) :
                    calls[c].audioBuffers[k] = Decode(Segments[k], sampleRate)
        /\ calls[c].pc = "render" =>
              calls[c].combined = SamplesOf(calls[c].audioBuffers)

\* C13: a call is waiting for its second decode with nothing concatenated
\* yet.
C13_Witness ==
    \E c \in Calls : /\ calls[c].pc = "decode"
                     /\ Len(calls[c].input) = 2
                     /\ Len(calls[c].audioBuffers) = 1
                     /\ calls[c].allocated < 0

\* The blob is the complete WAV of a finished call: all the segments the
\* call decoded, in order, every sample encoded.
CompleteResult(blob) ==
    \E c \in Calls : ProducedWav(c) /\ blob = calls[c].blob /\ SegmentsInOrder(c)

\* C14 (no partial result): the result slots this.combinedAudioBlob and
\* audioBlob, and the blob of every interviewComplete event, are null or the
\* complete WAV of a finished call (audioBlob may also hold the sample voice
\* file, which no combine wrote); a call that is still running or has
\* failed has exposed no blob.
C14_NoPartialResult ==
    /\ IsNull(combinedAudioBlob) \/ CompleteResult(combinedAudioBlob)
    /\ IsNull(audioBlob) \/ audioBlob = SampleBlob \/ CompleteResult(audioBlob)
    /\ \A j \in 1..Len(dispatched) : CompleteResult(dispatched[j])
    /\ \A c \in Calls : (~Finished(c) \/ calls[c].failure # "none") => IsNull(calls[c].blob)
    /\ (\A c \in Calls : ~ProducedWav(c)) =>
           (IsNull(combinedAudioBlob) /\ (IsNull(audioBlob) \/ audioBlob = SampleBlob))

\* C14: a combine failed in the copy loop, after the combined buffer had
\* been allocated and partly filled, and no blob is visible.
C14_Witness ==
    \E c \in Calls : /\ Finished(c) /\ calls[c].failure = "concat"
                     /\ calls[c].allocated > 0
                     /\ IsNull(combinedAudioBlob) /\ IsNull(audioBlob)

\* C19 (completion notification): once finishInterview has run to its end
\* for a combine that produced a blob, an interviewComplete event carrying
\* that blob has been dispatched, whatever the request to
\* /save-interview-responses did; and no event was dispatched without a
\* blob.
C19_CompletionNotified ==
    script = "interview" =>
        /\ \A c \in Calls :
              (calls[c].fin = "end" /\ ~IsNull(calls[c].blob)) =>
                  \E j \in 1..Len(dispatched) : dispatched[j] = calls[c].blob
        /\ \A j \in 1..Len(dispatched) : ~IsNull(dispatched[j])

\* C19: finishInterview has returned with a combined blob in
\* this.combinedAudioBlob, the request was rejected, and nothing was
\* dispatched: the page has no audioBlob and its create button stays
\* disabled.
C19_Witness ==
    /\ script = "interview"
    /\ \E c \in Calls : /\ calls[c].fin = "end"
                        /\ ~IsNull(calls[c].blob)
                        /\ combinedAudioBlob = calls[c].blob
    /\ dispatched = <<>>
    /\ IsNull(audioBlob)
    /\ createVoiceDisabled

\* The POST to /clone-voice that a step has issued, if it issued one.
IssuesPost == Len(cloneRequests') = Len(cloneRequests) + 1

\* C20 (clone request precondition): a step issues a POST to /clone-voice
\* only if it is the submit handler running with an audio blob (the sample
\* voice file, or the complete WAV of a combine) and a non-empty profile
\* name, and the POST carries that blob and that name; a run of the handler
\* without a blob or without a name alerts, issues nothing and leaves the
\* create button and window.lastVoiceId as they were.
C20_ClonePrecondition ==
    [][ /\ IssuesPost =>
              /\ SubmitCloneForm
              /\ ~IsNull(audioBlob) /\ profileName # ""
              /\ audioBlob = SampleBlob \/ CompleteResult(audioBlob)
              /\ cloneRequests'[Len(cloneRequests')] =
                     [audio |-> audioBlob, name |-> profileName, state |-> "pending"]
        /\ (SubmitCloneForm /\ (IsNull(audioBlob) \/ profileName = "")) =>
              /\ lastAlert' \in {AlertRecordFirst, AlertEnterName}
              /\ UNCHANGED << cloneRequests, createVoiceDisabled, lastVoiceId >>
      ]_vars

\* C20: a submit with the name field empty was refused with the alert, and
\* after the name was typed a later submit issued the POST, which is
\* pending with the create button disabled.
C20_Witness ==
    /\ Len(cloneRequests) = 1
    /\ cloneRequests[1].state = "pending"
    /\ cloneRequests[1].name # ""
    /\ ~IsNull(cloneRequests[1].audio)
    /\ lastAlert = AlertEnterName
    /\ createVoiceDisabled
    /\ lastVoiceId = Undefined

\* The requests invocation u of uploadPendingDocuments sent for document d.
SentBy(u, d) == { j \in 1..Len(sentDocs) : sentDocs[j].by = u /\ sentDocs[j].doc = d }

\* C21 (pending-document bookkeeping): when an invocation of
\* uploadPendingDocuments has finished, window.pendingDocuments was left
\* empty, uploadedCount + failedCount is the number of documents that were
\* pending when it started, and each of those documents was sent exactly
\* once, to /associate-document if it has a temp_id and to /upload-document
\* if not.
C21_PendingBookkeeping ==
    \A u \in 1..Len(uploads) :
        uploads[u].pc = "done" =>
            /\ uploads[u].pendingAtEnd = 0
            /\ uploads[u].uploadedCount + uploads[u].failedCount = uploads[u].totalDocs
            /\ \A k \in 1..Len(uploads[u].started) :
                  /\ Cardinality(SentBy(u, uploads[u].started[k].file)) = 1
                  /\ \A j \in SentBy(u, uploads[u].started[k].file) :
                        sentDocs[j].url = UrlOf(uploads[u].started[k])

\* C21: an invocation that started with two pending documents has finished
\* having counted one; the other document, which the user did not remove,
\* was never sent.
C21_Witness ==
    \E u \in 1..Len(uploads) :
        /\ uploads[u].pc = "done"
        /\ uploads[u].totalDocs = 2
        /\ uploads[u].uploadedCount + uploads[u].failedCount = 1
        /\ \E k \in 1..2 : /\ uploads[u].started[k] \notin removedDocs
                           /\ SentBy(u, uploads[u].started[k].file) = {}

\* Nothing is in flight: no request of the upload form, no POST to
\* /clone-voice, no invocation of uploadPendingDocuments.
DocsQuiescent ==
    /\ docRequest.kind = "none"
    /\ \A i \in 1..Len(cloneRequests) : cloneRequests[i].state # "pending"
    /\ \A u \in 1..Len(uploads) : uploads[u].pc = "done"

\* The documents the temporary storage accepted and gave a temp_id: the
\* handler pushed each onto window.pendingDocuments, and only a Remove
\* click takes one out of an array.
StoredDocuments ==
    { d \in removedDocs \cup UNION { { docArrays[a][k] : k \in 1..Len(docArrays[a]) } :
                                      a \in 1..Len(docArrays) } : d.temp }

\* The ids of the agents /clone-voice created.
CreatedAgents == { VoiceId(i) : i \in { j \in 1..Len(cloneRequests) : cloneRequests[j].state = "ok" } }

\* C22 (pending documents are associated after agent creation): once
\* /clone-voice has succeeded and nothing is in flight any more, every
\* document that was stored in temporary storage and that the user did not
\* remove has been sent to /associate-document with the id of the created
\* agent.
C22_PendingAssociated ==
    (lastVoiceId # Undefined /\ DocsQuiescent) =>
        \A d \in StoredDocuments \ removedDocs :
            \E j \in 1..Len(sentDocs) : /\ sentDocs[j].doc = d.file
                                        /\ sentDocs[j].url = "/associate-document"
                                        /\ sentDocs[j].agent \in CreatedAgents

\* C22: the agent exists, nothing is in flight, uploadPendingDocuments was
\* never called, and a stored document still sits in
\* window.pendingDocuments: its temporary upload answered after
\* /clone-voice did.
C22_Witness ==
    /\ lastVoiceId # Undefined
    /\ DocsQuiescent
    /\ uploads = <<>>
    /\ sentDocs = <<>>
    /\ \E k \in 1..Len(PendingDocuments) : PendingDocuments[k].temp

\* The data events of a response, and the concatenation of their chunks.
DataEvents(evs) == SelectSeq(evs, LAMBDA e : e.type = "data")

RECURSIVE ChunksOf(_)
ChunksOf(evs) ==
    IF evs = <<>> THEN <<>> ELSE evs[1].chunk \o ChunksOf(Tail(evs))

\* C23 (chat stream reassembly): when the reader has come to the end of a
\* body in which every event ends with a blank line, fullResponse is the
\* concatenation, in order, of the chunks of the data events, and the
\* events the loop handled are the data events of the body, each once and
\* in order, however the body was cut into reads; nothing is left in the
\* buffer or in the decoder.
C23_StreamReassembly ==
    (chat.finished /\ chat.stream = Utf8(StreamText(chat.events))) =>
        /\ chat.fullResponse = ChunksOf(DataEvents(chat.events))
        /\ chat.handled = DataEvents(chat.events)
        /\ chat.buffer = <<>>
        /\ chat.carry = <<>>

\* C23: a body of three data events with text was read to its end in
\* reads that ended inside an event, between the two line feeds of a
\* separator and inside a letter of two bytes.
C23_Witness ==
    /\ chat.finished
    /\ Len(chat.events) = 3
    /\ \A k \in 1..3 : chat.events[k].type = "data" /\ chat.events[k].chunk # <<>>
    /\ {"event", "separator", "letter"} \subseteq chat.cuts
    /\ chat.fullResponse = ChunksOf(chat.events)
    /\ Len(chat.fullResponse) >= 4

====
